---- MODULE Spec2Model ----
(***************************************************************************)
(* Model of the YouTube channel checker: the full-list poller              *)
(* (monitoring.py, MonitorService._check_channels), the notifier it calls  *)
(* (notifications.py), the content source it reads (youtube_api.py) and    *)
(* the legacy latest-only poller (youtube_monitor.py, monitor_channels),   *)
(* the monitor thread and its start and stop (MonitorService), and the     *)
(* file cache with its time-to-live and its file lock (cache.py).          *)
(***************************************************************************)
EXTENDS Integers, Sequences, FiniteSets, TLC

(***************************************************************************)
(* Bounds of the model.                                                    *)
(***************************************************************************)
\* number of distinct video ids that short upload playlists are built from
NumItems == 3
\* length of the longest short upload playlist
MaxLen == 3
\* length of the one long upload playlist (longer than every limit of the code)
LongLen == 21
\* number of threads start_monitoring can create in one run of the model
MaxThreads == 2
\* number of start_monitoring and stop_monitoring calls in one run of the model
MaxOps == 4
\* clock readings (datetime.now()) per second
TicksPerSecond == 3
\* the clock runs from 0 to MaxSeconds seconds
MaxSeconds == 2
\* the largest ttl_seconds a Cache is constructed with
MaxTtl == 1

(***************************************************************************)
(* Program constants.                                                      *)
(***************************************************************************)
\* get_recent_videos(uploads_playlist_id, channel_id, 10)
RECENT_MAX_RESULTS == 10
\* maxResults=min(max_results, 50)
API_MAX_RESULTS == 50
\* current_videos[:20]
STATE_LIMIT == 20
\* state_cache = Cache('channel_states.json', 'channel_states.lock', 0)
STATE_CACHE_TTL == 0

VARIABLES
    \* ---- environment and persisted files
    channels,        \* config.channels: identifier -> channel id ("" = not resolved)
    playlist,        \* uploads playlist of each channel at the content source
    stored,          \* state_cache entry 'channel_states': channel id -> video ids
    is_configured,   \* NotificationService.is_configured
    \* ---- MonitorService._check_channels
    pc,              \* "sleep" | "process" | "notify" | "raised"
    channel_states,  \* local dict loaded at the start of the cycle
    channels_info,   \* local dict returned by get_multiple_channels_info
    todo,            \* channels of channels_info still to be iterated
    processed,       \* locals of the loop body, per channel iterated this cycle
    cur,             \* channel whose notification is about to be sent
    calls,           \* notifier calls made in this cycle
    deliveries,      \* resend.Emails.send calls made in this cycle
    \* ---- history
    states_before,   \* stored, as it was when the cycle began
    sent,            \* channel id -> video ids notified by earlier cycles
    observed,        \* channel id -> "changed" | "seen" | "seen_failed"
    repeat,          \* channel id -> "no", or observed when this cycle fetched it again
    \* ---- youtube_monitor.py (legacy latest-only poller)
    legacy_states,   \* STATE_FILE: "channel_<id>" -> last video id
    legacy_cache,    \* YOUTUBE_CACHE_FILE: channel -> cached latest video
    legacy_pc,       \* "sleep" | "loop" | "returned" | "raised"
    legacy_local,    \* local dict channel_states of monitor_channels
    legacy_todo,     \* channel ids still to be iterated
    legacy_seen,     \* channel -> locals of the loop body for the channels iterated
    legacy_calls,    \* send_notification calls of this loop iteration
    \* ---- MonitorService: the monitor thread and its control
    is_running,      \* MonitorService.is_running
    monitor_thread,  \* MonitorService.monitor_thread (0 = None)
    thread_pc,       \* thread -> "unborn" | "test" | "cycle" | "sleep" | "dead"
    joining,         \* thread a stop_monitoring call is joining (0 = none)
    ops,             \* number of start_monitoring and stop_monitoring calls made
    last_op,         \* the last call of the control surface: what it was and what it found
    youtube_api_key, \* config.youtube_api_key is set
    \* ---- YouTubeAPI.get_channel_id
    username_cache,  \* youtube_cache entries "username_<identifier>"
    resolve_log,     \* identifier -> outcome of get_channel_id in this cycle
    \* ---- cache.py: one Cache object and its file
    now,             \* the clock, in ticks
    cache_file,      \* the cache file: missing, unreadable, or a dict of entries
    ttl_seconds,     \* Cache.ttl_seconds
    cache_ret,       \* the last Cache call and what it returned
    last_set,        \* key -> value and time of the last Cache.set, until a delete
    uncleaned_file,  \* the cache file as it would be had cleanup never been called
    lock,            \* holder of the lock file: "free", a caller, or "other"
    cache_call,      \* caller -> the Cache call it is making and how far it is
    other_writes     \* state files another actor changed after the last cycle

vars == <<channels, playlist, stored, is_configured, pc, channel_states,
          channels_info, todo, processed, cur, calls, deliveries,
          states_before, sent, observed, repeat,
          legacy_states, legacy_cache, legacy_pc, legacy_local, legacy_todo,
          legacy_seen, legacy_calls,
          is_running, monitor_thread, thread_pc, joining, ops, last_op,
          youtube_api_key, username_cache, resolve_log,
          now, cache_file, ttl_seconds, cache_ret, last_set,
          uncleaned_file, lock, cache_call, other_writes>>

monitorVars == <<channels, stored, is_configured, pc, channel_states,
                 channels_info, todo, processed, cur, calls, deliveries,
                 states_before, sent, observed, repeat>>

legacyVars == <<legacy_states, legacy_cache, legacy_pc, legacy_local,
                legacy_todo, legacy_seen, legacy_calls>>

controlVars == <<is_running, monitor_thread, thread_pc, joining, ops, last_op,
                 youtube_api_key>>

resolutionVars == <<username_cache, resolve_log>>

lockVars == <<lock, cache_call>>

cacheFileVars == <<now, cache_file, ttl_seconds, cache_ret, last_set,
                   uncleaned_file, lockVars>>

cacheVars == <<cacheFileVars, other_writes>>

(***************************************************************************)
(* Sequences and dicts.                                                    *)
(***************************************************************************)
Min(a, b) == IF a < b THEN a ELSE b

Range(s) == {s[i] : i \in 1..Len(s)}

\* Python slice s[:n]
Take(s, n) == SubSeq(s, 1, Min(n, Len(s)))

\* the empty dict {}
EmptyDict == [k \in {} |-> <<>>]

\* d[k] = v
Put(d, k, v) == [x \in (DOMAIN d) \cup {k} |-> IF x = k THEN v ELSE d[x]]

\* d.get(k, default)
GetOr(d, k, default) == IF k \in DOMAIN d THEN d[k] ELSE default

\* all orders in which the keys of a dict can be iterated
Orders(S) == {s \in [1..Cardinality(S) -> S] : \A i, j \in 1..Cardinality(S) : s[i] = s[j] => i = j}

(***************************************************************************)
(* Videos and the content source.                                          *)
(***************************************************************************)
\* a video dict as built by get_recent_videos; video n was published at time n
Video(n) == [id |-> n, published_at |-> n]

\* [v['id'] for v in videos]
Ids(videos) == [i \in 1..Len(videos) |-> videos[i].id]

Identifiers == {"@a", "@b"}

\* the channel id the content source resolves an identifier to
CanonicalId == ("@a" :> "UCa") @@ ("@b" :> "UCb")

ShortLists ==
    {[i \in 1..Len(s) |-> Video(s[i])] :
        s \in {t \in UNION {[1..n -> 1..NumItems] : n \in 1..MaxLen} :
                  \A i, j \in 1..Len(t) : t[i] = t[j] => i = j}}

\* ids NumItems+LongLen down to NumItems+1, newest first
LongList == [i \in 1..LongLen |-> Video(NumItems + LongLen + 1 - i)]

\* the upload playlists a channel can have at the source
Playlists == ShortLists \cup {LongList}


\* faulty variant: max_results is ignored and the API limit is requested
get_recent_videos_ApiLimit(uploads, max_results) == Take(uploads, API_MAX_RESULTS)

\* YouTubeAPI.get_recent_videos: the first maxResults=min(max_results, 50)
\* entries of the uploads playlist, in the order of the playlist
get_recent_videos(uploads, max_results) == Take(uploads, Min(max_results, API_MAX_RESULTS))

(***************************************************************************)
(* MonitorService._check_channels: the pure parts of the loop body.        *)
(***************************************************************************)
\* faulty variant: the check for an empty result is missing
NoVideos_Never(recent_videos) == FALSE

\* not channel_info or not channel_info.get('recent_videos')
NoVideos(recent_videos) == recent_videos = <<>>

\* faulty variant: the first check is not told apart from a later one
IsFirstCheck_Never(last_video_ids) == FALSE

\* if not last_video_ids
IsFirstCheck(last_video_ids) == last_video_ids = <<>>

\* faulty variant: a video is new when it was published after every video known
NewVideos_ByDate(current_videos, last_video_ids) ==
    SelectSeq(current_videos,
              LAMBDA v : \A k \in 1..Len(last_video_ids) : v.published_at > last_video_ids[k])

\* [v for v in current_videos if v['id'] not in last_video_ids]
NewVideos(current_videos, last_video_ids) ==
    SelectSeq(current_videos, LAMBDA v : v.id \notin Range(last_video_ids))

\* faulty variant: only the latest video is stored by the first check
SeedIds_LatestOnly(current_videos) == <<current_videos[1].id>>

\* first check: [v['id'] for v in current_videos]
SeedIds(current_videos) == Ids(current_videos)

\* faulty variant: the new ids are put in front of the ids known
UpdatedIds_Prepend(current_videos, last_video_ids) ==
    Take(Ids(SelectSeq(current_videos, LAMBDA v : v.id \notin Range(last_video_ids)))
         \o last_video_ids, STATE_LIMIT)

\* new videos found: [v['id'] for v in current_videos[:20]]
UpdatedIds(current_videos, last_video_ids) == Ids(Take(current_videos, STATE_LIMIT))

\* faulty variant: one call for each new video
NotifierCalls_PerVideo(channel_id, new_videos) ==
    [i \in 1..Len(new_videos) |->
        [channel |-> channel_id, kind |-> "single", videos |-> <<new_videos[i]>>]]

\* the notifier calls made for the new videos of one channel
NotifierCalls(channel_id, new_videos) ==
    IF Len(new_videos) = 1
    THEN <<[channel |-> channel_id, kind |-> "single", videos |-> <<new_videos[1]>>]>>
    ELSE <<[channel |-> channel_id, kind |-> "multiple", videos |-> new_videos]>>

\* faulty variant: the notifier does not look at is_configured
SendOutcome_IgnoresConfig(call, configured, delivered) ==
    [result |-> delivered,
     emails |-> <<[channel |-> call.channel, videos |-> call.videos]>>]

\* NotificationService.send_video_notification / send_multiple_videos_notification:
\* False without any delivery when not configured, otherwise one
\* resend.Emails.send, whose failure is caught and turned into False
SendOutcome(call, configured, delivered) ==
    [result |-> configured /\ delivered,
     emails |-> IF configured
                THEN <<[channel |-> call.channel, videos |-> call.videos]>>
                ELSE <<>>]

\* the identifiers of config.channels that still need conversion
Unresolved(conf) == {i \in DOMAIN conf : conf[i] = ""}

\* get_channel_id, lines 24-26: the identifiers whose cached channel id can
\* be returned, if the entry has not expired by now
CacheHits(cache, unresolved) ==
    {i \in unresolved : i \in DOMAIN cache /\ cache[i].fresh /\ cache[i].id # ""}

\* faulty variant: a failed conversion is cached as an empty channel id
ResolutionCacheAfter_Negative(cache, unresolved, hits, resolved) ==
    [i \in (DOMAIN cache) \cup unresolved |->
        IF i \in resolved THEN [id |-> CanonicalId[i], fresh |-> TRUE]
        ELSE IF i \in unresolved \ hits THEN [id |-> "", fresh |-> TRUE]
        ELSE cache[i]]

\* get_channel_id, lines 24-26 and 73-79: the youtube_cache entries after the
\* unresolved identifiers were looked up; an entry that was there and was
\* not returned has expired, an entry is written for a conversion that
\* succeeded and for no other
ResolutionCacheAfter(cache, unresolved, hits, resolved) ==
    [i \in (DOMAIN cache) \cup resolved |->
        IF i \in resolved THEN [id |-> CanonicalId[i], fresh |-> TRUE]
        ELSE IF i \in unresolved \ hits THEN [cache[i] EXCEPT !.fresh = FALSE]
        ELSE cache[i]]

\* get_channel_id for each unresolved identifier: where its result came from
ResolveOutcomes(unresolved, hits, resolved) ==
    [i \in unresolved |-> IF i \in hits THEN "cached"
                          ELSE IF i \in resolved THEN "resolved" ELSE "failed"]

\* faulty variant: the converted channel id is not written to the configuration
ConfigAfter_Forgets(conf, cache, hits, resolved) == conf

\* config.channels after update_channel_conversion for the identifiers converted
ConfigAfter(conf, cache, hits, resolved) ==
    [i \in DOMAIN conf |-> IF i \in hits THEN cache[i].id
                           ELSE IF i \in resolved THEN CanonicalId[i]
                           ELSE conf[i]]

\* the threads start_monitoring can create
ThreadIds == 1..MaxThreads

\* the thread is inside _monitor_loop
Alive(t) == thread_pc[t] \in {"test", "cycle", "sleep"}

\* the thread is about to test the condition of its while loop: it has just
\* been started, or it is in the sleep that ends its cycle
AtTest(t) == thread_pc[t] \in {"test", "sleep"}

\* _monitor_loop, lines 37-42: is_running and the key are set, the thread
\* goes on to call _check_channels
LoopRuns(t) == AtTest(t) /\ is_running /\ youtube_api_key

\* youtube_monitor.py: channel_key = f"channel_{channel_id}"
ChannelKey(channel_id) == <<"channel", channel_id>>

\* channel ids of the configured identifiers
AllIds == {CanonicalId[i] : i \in DOMAIN channels}

\* the state in which _check_channels is about to return
CycleDone == pc = "process" /\ todo = <<>>

\* calls made in this cycle for one channel
CallsFor(c) == SelectSeq(calls, LAMBDA call : call.channel = c)

\* video ids carried by a sequence of calls
CallIds(cs) == UNION {Range(Ids(cs[i].videos)) : i \in 1..Len(cs)}

(***************************************************************************)
(* Initial state: nothing persisted, the loop asleep before its first      *)
(* cycle.                                                                  *)
(***************************************************************************)
OneChannelConfigs == {("@a" :> ""), ("@a" :> "UCa")}

\* the store of a fresh installation
FreshStores == {EmptyDict}

\* the lists an earlier run can have stored for a channel
PersistedLists == {Ids(get_recent_videos(uploads, RECENT_MAX_RESULTS)) : uploads \in Playlists}

\* the stores an earlier run of the poller can have left behind
EarlierStores == UNION {[S -> PersistedLists] : S \in SUBSET AllIds}

InitMonitor(configs, lists, stores) ==
    /\ channels \in configs
    /\ playlist \in [AllIds -> lists]
    /\ stored \in stores
    /\ is_configured \in BOOLEAN
    /\ pc = "sleep"
    /\ channel_states = EmptyDict
    /\ channels_info = EmptyDict
    /\ todo = <<>>
    /\ processed = EmptyDict
    /\ cur = ""
    /\ calls = <<>>
    /\ deliveries = <<>>
    /\ states_before = EmptyDict
    /\ sent = [c \in AllIds |-> {}]
    /\ observed = [c \in AllIds |-> "changed"]
    /\ repeat = [c \in AllIds |-> "no"]

InitLegacy ==
    /\ legacy_states = EmptyDict
    /\ legacy_cache = EmptyDict
    /\ legacy_pc = "sleep"
    /\ legacy_local = EmptyDict
    /\ legacy_todo = <<>>
    /\ legacy_seen = EmptyDict
    /\ legacy_calls = <<>>

\* the state files an earlier run of the legacy poller can have left behind
EarlierLegacyStates ==
    UNION {[{ChannelKey(c) : c \in S} -> {Head(uploads).id : uploads \in Playlists}] :
              S \in SUBSET AllIds}

InitLegacyEarlier ==
    /\ legacy_states \in EarlierLegacyStates
    /\ legacy_cache = EmptyDict
    /\ legacy_pc = "sleep"
    /\ legacy_local = EmptyDict
    /\ legacy_todo = <<>>
    /\ legacy_seen = EmptyDict
    /\ legacy_calls = <<>>

\* a MonitorService whose start_monitoring was called once.  With the key
\* set the monitor thread is in the sleep between two cycles (a cycle that
\* found nothing to do leaves no other trace); without the key it is about
\* to test its while condition for the first time
InitRunning(keys) ==
    /\ youtube_api_key \in keys
    /\ is_running = TRUE
    /\ monitor_thread = 1
    /\ thread_pc = [t \in ThreadIds |->
                       IF t # 1 THEN "unborn"
                       ELSE IF youtube_api_key THEN "sleep" ELSE "test"]
    /\ joining = 0
    /\ ops = 0
    /\ last_op = [op |-> "none", was_running |-> FALSE]

\* the youtube_cache entries written by the conversions that gave the
\* configuration its channel ids
ConvertedEarlier(conf) ==
    [i \in {j \in DOMAIN conf : conf[j] # ""} |-> [id |-> conf[i], fresh |-> TRUE]]

\* the youtube_cache entries earlier conversions have left behind: those of
\* the identifiers converted, and possibly some of identifiers whose
\* channel id did not reach the configuration
InitResolution(caches) ==
    /\ username_cache \in
         {ConvertedEarlier(channels) @@ c :
             c \in {d \in caches : \A i \in DOMAIN d : channels[i] = ""}}
    /\ resolve_log = EmptyDict

\* the cache file of a Cache object that was never used
MissingFile == [state |-> "missing", entries |-> EmptyDict]

NoRet == [op |-> "none", key |-> "", value |-> "null", raised |-> FALSE]

\* the two contexts that use a Cache object: the monitor thread and a
\* request handler of the control surface
Callers == {"poller", "control"}

\* a caller that is not inside a Cache call
IdleCall == [pc |-> "idle", op |-> "none", key |-> "", value |-> "null",
             loaded |-> EmptyDict]

\* Cache.__init__, line 15: the lock is created, nobody holds it
InitLockIdle ==
    /\ lock = "free"
    /\ cache_call = [c \in Callers |-> IdleCall]

InitCacheIdle ==
    /\ now = 0
    /\ cache_file = MissingFile
    /\ ttl_seconds = 0
    /\ cache_ret = NoRet
    /\ last_set = EmptyDict
    /\ uncleaned_file = cache_file
    /\ InitLockIdle
    /\ other_writes = {}

Init ==
    /\ InitMonitor(OneChannelConfigs, Playlists, FreshStores)
    /\ InitLegacy
    /\ InitRunning({TRUE})
    /\ InitResolution({EmptyDict})
    /\ InitCacheIdle

\* the configurations both programs can share: the legacy poller reads
\* channel ids only
ConvertedConfigs == {conf \in OneChannelConfigs : \A i \in DOMAIN conf : conf[i] # ""}

\* both programs of the repository, started on whatever an earlier run left
InitBoth ==
    /\ InitMonitor(ConvertedConfigs, Playlists, EarlierStores)
    /\ InitLegacyEarlier
    /\ InitRunning({TRUE})
    /\ InitResolution({EmptyDict})
    /\ InitCacheIdle

(***************************************************************************)
(* MonitorService._monitor_loop, lines 37-42, and _check_channels, lines    *)
(* 46-87: the loop goes on, the cycle loads the state, resolves the        *)
(* unresolved identifiers and fetches all channels in one batch.           *)
(***************************************************************************)
\* faulty variant: the state file is not read
LoadChannelStates_Forgets(store) == EmptyDict

\* line 48: state_cache.get('channel_states') or {}
LoadChannelStates(store) == store

CheckChannelsFetch ==
    /\ pc = "sleep"
    /\ \E t \in ThreadIds :
         /\ LoopRuns(t)
         /\ thread_pc' = [thread_pc EXCEPT ![t] = "cycle"]
    /\ \E hits \in SUBSET CacheHits(username_cache, Unresolved(channels)) :
       \E resolved \in SUBSET (Unresolved(channels) \ hits) :
         LET conf == ConfigAfter(channels, username_cache, hits, resolved)
             ids == {conf[i] : i \in DOMAIN conf} \ {""}
         IN  /\ channels' = conf
             /\ username_cache' =
                  ResolutionCacheAfter(username_cache, Unresolved(channels), hits, resolved)
             /\ resolve_log' = ResolveOutcomes(Unresolved(channels), hits, resolved)
             /\ \E present \in SUBSET ids :
                \E failed \in SUBSET present :
                \E order \in Orders(present) :
                  /\ channels_info' =
                       [c \in present |->
                           IF c \in failed THEN <<>>
                           ELSE get_recent_videos(playlist[c], RECENT_MAX_RESULTS)]
                  /\ todo' = order
                  /\ repeat' = [c \in AllIds |->
                                   IF c \in present \ failed /\ observed[c] # "changed"
                                   THEN observed[c] ELSE "no"]
                  /\ observed' = [c \in AllIds |->
                                   IF c \in present \ failed THEN "seen" ELSE observed[c]]
    /\ channel_states' = LoadChannelStates(stored)
    /\ states_before' = stored
    /\ pc' = "process"
    /\ processed' = EmptyDict
    /\ cur' = ""
    /\ calls' = <<>>
    /\ deliveries' = <<>>
    /\ UNCHANGED <<playlist, stored, is_configured, sent>>
    /\ UNCHANGED <<is_running, monitor_thread, joining, ops, last_op,
                   youtube_api_key>>
    /\ UNCHANGED <<legacyVars, cacheVars>>

\* faulty variant: a channel without videos ends the cycle
SkipChannel_Aborts ==
    /\ pc = "process" /\ todo # <<>>
    /\ NoVideos(channels_info[Head(todo)])
    /\ todo' = <<>>
    /\ UNCHANGED <<channels, playlist, stored, is_configured, pc, channel_states,
                   channels_info, processed, cur, calls, deliveries,
                   states_before, sent, observed, repeat>>
    /\ UNCHANGED <<legacyVars, controlVars, resolutionVars, cacheVars>>

(***************************************************************************)
(* Lines 90-93: no videos for the channel, continue.                       *)
(***************************************************************************)
SkipChannel ==
    /\ pc = "process" /\ todo # <<>>
    /\ NoVideos(channels_info[Head(todo)])
    /\ todo' = Tail(todo)
    /\ UNCHANGED <<channels, playlist, stored, is_configured, pc, channel_states,
                   channels_info, processed, cur, calls, deliveries,
                   states_before, sent, observed, repeat>>
    /\ UNCHANGED <<legacyVars, controlVars, resolutionVars, cacheVars>>

(***************************************************************************)
(* Lines 99-109: first check of the channel, store its videos, continue.   *)
(***************************************************************************)
FirstCheck ==
    /\ pc = "process" /\ todo # <<>>
    /\ LET channel_id == Head(todo)
           current_videos == channels_info[channel_id]
           last_video_ids == GetOr(channel_states, channel_id, <<>>)
           updated == Put(channel_states, channel_id, SeedIds(current_videos))
       IN  /\ ~NoVideos(current_videos)
           /\ IsFirstCheck(last_video_ids)
           /\ channel_states' = updated
           /\ stored' = updated
           /\ processed' = Put(processed, channel_id,
                               [last_video_ids |-> last_video_ids,
                                current_videos |-> current_videos,
                                new_videos |-> <<>>])
    /\ todo' = Tail(todo)
    /\ UNCHANGED <<channels, playlist, is_configured, pc, channels_info, cur,
                   calls, deliveries, states_before, sent, observed, repeat>>
    /\ UNCHANGED <<legacyVars, controlVars, resolutionVars, cacheVars>>

(***************************************************************************)
(* Lines 111-122: new videos found, the state is updated and saved; the    *)
(* notification follows.                                                   *)
(***************************************************************************)
FoundNew ==
    /\ pc = "process" /\ todo # <<>>
    /\ LET channel_id == Head(todo)
           current_videos == channels_info[channel_id]
           last_video_ids == GetOr(channel_states, channel_id, <<>>)
           new_videos == NewVideos(current_videos, last_video_ids)
           updated == Put(channel_states, channel_id,
                          UpdatedIds(current_videos, last_video_ids))
       IN  /\ ~NoVideos(current_videos)
           /\ ~IsFirstCheck(last_video_ids)
           /\ new_videos # <<>>
           /\ channel_states' = updated
           /\ stored' = updated
           /\ processed' = Put(processed, channel_id,
                               [last_video_ids |-> last_video_ids,
                                current_videos |-> current_videos,
                                new_videos |-> new_videos])
           /\ cur' = channel_id
    /\ pc' = "notify"
    /\ todo' = Tail(todo)
    /\ UNCHANGED <<channels, playlist, is_configured, channels_info,
                   calls, deliveries, states_before, sent, observed, repeat>>
    /\ UNCHANGED <<legacyVars, controlVars, resolutionVars, cacheVars>>

(***************************************************************************)
(* Lines 111-114, 139-140: no new videos for the channel.                  *)
(***************************************************************************)
NoNewVideos ==
    /\ pc = "process" /\ todo # <<>>
    /\ LET channel_id == Head(todo)
           current_videos == channels_info[channel_id]
           last_video_ids == GetOr(channel_states, channel_id, <<>>)
           new_videos == NewVideos(current_videos, last_video_ids)
       IN  /\ ~NoVideos(current_videos)
           /\ ~IsFirstCheck(last_video_ids)
           /\ new_videos = <<>>
           /\ processed' = Put(processed, channel_id,
                               [last_video_ids |-> last_video_ids,
                                current_videos |-> current_videos,
                                new_videos |-> new_videos])
    /\ todo' = Tail(todo)
    /\ UNCHANGED <<channels, playlist, stored, is_configured, pc, channel_states,
                   channels_info, cur, calls, deliveries, states_before, sent,
                   observed, repeat>>
    /\ UNCHANGED <<legacyVars, controlVars, resolutionVars, cacheVars>>

\* faulty variant: when the notification fails the saved state is put back
SendNotification_RollsBack ==
    /\ pc = "notify"
    /\ \E delivered \in BOOLEAN :
         LET the_calls == NotifierCalls(cur, processed[cur].new_videos)
             outcomes == [i \in 1..Len(the_calls) |->
                             SendOutcome(the_calls[i], is_configured, delivered)]
         IN  /\ calls' = calls \o
                   [i \in 1..Len(the_calls) |->
                       [channel |-> the_calls[i].channel,
                        kind |-> the_calls[i].kind,
                        videos |-> the_calls[i].videos,
                        result |-> outcomes[i].result]]
             /\ deliveries' = deliveries \o
                   (IF is_configured THEN [i \in 1..Len(the_calls) |-> outcomes[i].emails[1]]
                    ELSE <<>>)
             /\ channel_states' =
                   IF \E i \in 1..Len(the_calls) : ~outcomes[i].result
                   THEN Put(channel_states, cur, processed[cur].last_video_ids)
                   ELSE channel_states
             /\ stored' =
                   IF \E i \in 1..Len(the_calls) : ~outcomes[i].result
                   THEN Put(channel_states, cur, processed[cur].last_video_ids)
                   ELSE stored
             /\ observed' = IF \E i \in 1..Len(the_calls) : ~outcomes[i].result
                            THEN [observed EXCEPT ![cur] = "seen_failed"]
                            ELSE observed
    /\ pc' = "process"
    /\ cur' = ""
    /\ UNCHANGED <<channels, playlist, is_configured,
                   channels_info, todo, processed, states_before, sent, repeat>>
    /\ UNCHANGED <<legacyVars, controlVars, resolutionVars, cacheVars>>

(***************************************************************************)
(* Lines 124-138: the notification for the new videos of the channel.      *)
(***************************************************************************)
SendNotification ==
    /\ pc = "notify"
    /\ \E delivered \in BOOLEAN :
         LET the_calls == NotifierCalls(cur, processed[cur].new_videos)
             outcomes == [i \in 1..Len(the_calls) |->
                             SendOutcome(the_calls[i], is_configured, delivered)]
         IN  /\ calls' = calls \o
                   [i \in 1..Len(the_calls) |->
                       [channel |-> the_calls[i].channel,
                        kind |-> the_calls[i].kind,
                        videos |-> the_calls[i].videos,
                        result |-> outcomes[i].result]]
             /\ deliveries' = deliveries \o
                   (IF is_configured THEN [i \in 1..Len(the_calls) |-> outcomes[i].emails[1]]
                    ELSE <<>>)
             /\ observed' = IF \E i \in 1..Len(the_calls) : ~outcomes[i].result
                            THEN [observed EXCEPT ![cur] = "seen_failed"]
                            ELSE observed
    /\ pc' = "process"
    /\ cur' = ""
    /\ UNCHANGED <<channels, playlist, stored, is_configured, channel_states,
                   channels_info, todo, processed, states_before, sent, repeat>>
    /\ UNCHANGED <<legacyVars, controlVars, resolutionVars, cacheVars>>

\* faulty variant: a cycle whose batched fetch gave nothing ends the loop
CheckChannelsReturn_EmptyEndsLoop ==
    /\ CycleDone
    /\ pc' = "sleep"
    /\ sent' = [c \in AllIds |-> sent[c] \cup CallIds(CallsFor(c))]
    /\ channel_states' = EmptyDict
    /\ channels_info' = EmptyDict
    /\ processed' = EmptyDict
    /\ calls' = <<>>
    /\ deliveries' = <<>>
    /\ states_before' = EmptyDict
    /\ repeat' = [c \in AllIds |-> "no"]
    /\ thread_pc' = [t \in ThreadIds |->
                        IF thread_pc[t] # "cycle" THEN thread_pc[t]
                        ELSE IF DOMAIN channels_info = {} THEN "dead" ELSE "sleep"]
    /\ resolve_log' = EmptyDict
    /\ other_writes' = other_writes \ {"state"}
    /\ UNCHANGED <<channels, playlist, stored, is_configured, todo, cur, observed>>
    /\ UNCHANGED <<is_running, monitor_thread, joining, ops, last_op,
                   youtube_api_key, username_cache>>
    /\ UNCHANGED <<legacyVars, cacheFileVars>>

(***************************************************************************)
(* _check_channels returns; _monitor_loop sleeps (lines 43-44).            *)
(***************************************************************************)
CheckChannelsReturn ==
    /\ CycleDone
    /\ pc' = "sleep"
    /\ sent' = [c \in AllIds |-> sent[c] \cup CallIds(CallsFor(c))]
    /\ channel_states' = EmptyDict
    /\ channels_info' = EmptyDict
    /\ processed' = EmptyDict
    /\ calls' = <<>>
    /\ deliveries' = <<>>
    /\ states_before' = EmptyDict
    /\ repeat' = [c \in AllIds |-> "no"]
    /\ thread_pc' = [t \in ThreadIds |->
                        IF thread_pc[t] = "cycle" THEN "sleep" ELSE thread_pc[t]]
    /\ resolve_log' = EmptyDict
    /\ other_writes' = other_writes \ {"state"}
    /\ UNCHANGED <<channels, playlist, stored, is_configured, todo, cur, observed>>
    /\ UNCHANGED <<is_running, monitor_thread, joining, ops, last_op,
                   youtube_api_key, username_cache>>
    /\ UNCHANGED <<legacyVars, cacheFileVars>>

(***************************************************************************)
(* The content source: between two polls the uploads playlist of a channel *)
(* changes (uploads, removals, videos made visible again).                 *)
(***************************************************************************)
SourceChange ==
    /\ pc = "sleep"
    /\ \E c \in AllIds :
       \E uploads \in Playlists \ {playlist[c]} :
         /\ playlist' = [playlist EXCEPT ![c] = uploads]
         /\ observed' = [observed EXCEPT ![c] = "changed"]
    /\ legacy_pc = "sleep"
    /\ UNCHANGED <<channels, stored, is_configured, pc, channel_states,
                   channels_info, todo, processed, cur, calls, deliveries,
                   states_before, sent, repeat>>
    /\ UNCHANGED <<legacyVars, controlVars, resolutionVars, cacheVars>>

(***************************************************************************)
(* youtube_monitor.py: the legacy latest-only poller.                      *)
(***************************************************************************)
\* channel_states.get(channel_key) of a channel without state: None
NoVideoId == 0

\* faulty variant: every fetched video counts as new
LegacyChanged_Always(states, key, video) == TRUE

\* last_video_id != video['id'], where last_video_id = channel_states.get(key)
LegacyChanged(states, key, video) == key \notin DOMAIN states \/ states[key] # video.id

\* if last_video_id is not None: send_notification(...)
LegacyNotifies(states, key) == key \in DOMAIN states

\* send_notification: False without delivery when the key or the recipient
\* is missing, otherwise one resend.Emails.send whose failure gives False
LegacySend(channel_id, video, configured, delivered) ==
    [channel |-> channel_id, video |-> video.id,
     attempted |-> configured, result |-> configured /\ delivered]

\* monitor_channels, lines 303-305: without the API key the function returns
\* before its loop (the key never changes, so testing it before each
\* iteration is the same as testing it once)
LegacyNoKey ==
    /\ legacy_pc = "sleep"
    /\ ~youtube_api_key
    /\ legacy_pc' = "returned"
    /\ UNCHANGED <<legacy_states, legacy_cache, legacy_local, legacy_todo,
                   legacy_seen, legacy_calls, playlist>>
    /\ UNCHANGED <<monitorVars, controlVars, resolutionVars, cacheVars>>

\* load_channel_states, lines 110-119: the state file, {} when it is missing
\* or does not parse
load_channel_states(file) == file

\* monitor_channels, lines 306-308: a loop iteration begins
LegacyLoad ==
    /\ legacy_pc = "sleep"
    /\ youtube_api_key
    /\ legacy_local' = load_channel_states(legacy_states)
    /\ \E order \in Orders(AllIds) : legacy_todo' = order
    /\ legacy_pc' = "loop"
    /\ legacy_seen' = EmptyDict
    /\ legacy_calls' = <<>>
    /\ UNCHANGED <<legacy_states, legacy_cache, playlist>>
    /\ UNCHANGED <<monitorVars, controlVars, resolutionVars, cacheVars>>

\* lines 312-315: get_latest_video gave nothing (channel or playlist request
\* failed, or the playlist is empty), continue
LegacySkip ==
    /\ legacy_pc = "loop" /\ legacy_todo # <<>>
    /\ legacy_todo' = Tail(legacy_todo)
    /\ UNCHANGED <<legacy_states, legacy_cache, legacy_pc, legacy_local,
                   legacy_seen, legacy_calls, playlist>>
    /\ UNCHANGED <<monitorVars, controlVars, resolutionVars, cacheVars>>

\* lines 312-326: get_latest_video gave a video (the cached one while its
\* cache entry is younger than CACHE_TTL_SECONDS, otherwise the first entry
\* of the uploads playlist, which is then cached), compared with the state
LegacyCheck ==
    /\ legacy_pc = "loop" /\ legacy_todo # <<>>
    /\ LET channel_id == Head(legacy_todo)
           channel_key == ChannelKey(channel_id)
       IN  \E cache_hit \in {h \in BOOLEAN : h => channel_id \in DOMAIN legacy_cache} :
           \E delivered \in BOOLEAN :
             LET video == IF cache_hit THEN legacy_cache[channel_id]
                          ELSE Head(playlist[channel_id])
                 updated == Put(legacy_local, channel_key, video.id)
             IN  /\ legacy_cache' = Put(legacy_cache, channel_id, video)
                 /\ legacy_seen' = Put(legacy_seen, channel_id,
                                       [first |-> channel_key \notin DOMAIN legacy_local,
                                        video |-> video,
                                        last_video_id |->
                                            GetOr(legacy_local, channel_key, NoVideoId),
                                        saved |->
                                            LegacyChanged(legacy_local, channel_key, video)])
                 /\ IF LegacyChanged(legacy_local, channel_key, video)
                    THEN /\ legacy_local' = updated
                         /\ legacy_states' = updated
                         /\ legacy_calls' =
                              IF LegacyNotifies(legacy_local, channel_key)
                              THEN Append(legacy_calls,
                                          LegacySend(channel_id, video, is_configured, delivered))
                              ELSE legacy_calls
                    ELSE UNCHANGED <<legacy_local, legacy_states, legacy_calls>>
    /\ legacy_todo' = Tail(legacy_todo)
    /\ UNCHANGED <<legacy_pc, playlist>>
    /\ UNCHANGED <<monitorVars, controlVars, resolutionVars, cacheVars>>

\* lines 327-328: the loop iteration ends, time.sleep(CHECK_INTERVAL)
LegacySleep ==
    /\ legacy_pc = "loop" /\ legacy_todo = <<>>
    /\ legacy_pc' = "sleep"
    /\ legacy_local' = EmptyDict
    /\ legacy_seen' = EmptyDict
    /\ legacy_calls' = <<>>
    /\ other_writes' = other_writes \ {"legacy"}
    /\ UNCHANGED <<legacy_states, legacy_cache, legacy_todo, playlist>>
    /\ UNCHANGED <<monitorVars, controlVars, resolutionVars, cacheFileVars>>

(***************************************************************************)
(* MonitorService: start_monitoring, stop_monitoring and _monitor_loop.    *)
(***************************************************************************)
\* the thread start_monitoring creates next
NewThread == CHOOSE t \in ThreadIds :
                /\ thread_pc[t] = "unborn"
                /\ \A u \in ThreadIds : thread_pc[u] = "unborn" => t <= u

\* faulty variant: the test of is_running is missing
StartMonitoring_NoGuard ==
    /\ ops < MaxOps
    /\ \E t \in ThreadIds : thread_pc[t] = "unborn"
    /\ ops' = ops + 1
    /\ last_op' = [op |-> "start", was_running |-> is_running]
    /\ is_running' = TRUE
    /\ monitor_thread' = NewThread
    /\ thread_pc' = [thread_pc EXCEPT ![NewThread] = "test"]
    /\ UNCHANGED <<joining, youtube_api_key>>
    /\ UNCHANGED <<playlist, monitorVars, legacyVars, resolutionVars, cacheVars>>

\* start_monitoring, lines 18-26
StartMonitoring ==
    /\ ops < MaxOps
    /\ is_running \/ \E t \in ThreadIds : thread_pc[t] = "unborn"
    /\ ops' = ops + 1
    /\ last_op' = [op |-> "start", was_running |-> is_running]
    /\ IF is_running
       THEN UNCHANGED <<is_running, monitor_thread, thread_pc>>
       ELSE /\ is_running' = TRUE
            /\ monitor_thread' = NewThread
            /\ thread_pc' = [thread_pc EXCEPT ![NewThread] = "test"]
    /\ UNCHANGED <<joining, youtube_api_key>>
    /\ UNCHANGED <<playlist, monitorVars, legacyVars, resolutionVars, cacheVars>>

\* faulty variant: stopping cuts off the save that is under way and leaves
\* the state file truncated
StopMonitoring_TearsWrite ==
    /\ ops < MaxOps
    /\ joining = 0
    /\ ops' = ops + 1
    /\ last_op' = [op |-> "stop", was_running |-> is_running]
    /\ is_running' = FALSE
    /\ joining' = monitor_thread
    /\ stored' = EmptyDict
    /\ UNCHANGED <<monitor_thread, thread_pc, youtube_api_key>>
    /\ UNCHANGED <<channels, playlist, is_configured, pc, channel_states,
                   channels_info, todo, processed, cur, calls, deliveries,
                   states_before, sent, observed, repeat>>
    /\ UNCHANGED <<legacyVars, resolutionVars, cacheVars>>

\* stop_monitoring, lines 28-32: the flag is cleared and the caller begins
\* to join the thread, if there is one
StopMonitoring ==
    /\ ops < MaxOps
    /\ joining = 0
    /\ ops' = ops + 1
    /\ last_op' = [op |-> "stop", was_running |-> is_running]
    /\ is_running' = FALSE
    /\ joining' = monitor_thread
    /\ UNCHANGED <<monitor_thread, thread_pc, youtube_api_key>>
    /\ UNCHANGED <<playlist, monitorVars, legacyVars, resolutionVars, cacheVars>>

\* stop_monitoring, line 32: join returns because the thread has ended
JoinReturns ==
    /\ joining # 0
    /\ thread_pc[joining] = "dead"
    /\ joining' = 0
    /\ UNCHANGED <<is_running, monitor_thread, thread_pc, ops, last_op,
                   youtube_api_key>>
    /\ UNCHANGED <<playlist, monitorVars, legacyVars, resolutionVars, cacheVars>>

\* stop_monitoring, line 32: join(timeout=5.0) returns while the thread is
\* still in its cycle or in its sleep of check_interval seconds
JoinTimesOut ==
    /\ joining # 0
    /\ Alive(joining)
    /\ joining' = 0
    /\ UNCHANGED <<is_running, monitor_thread, thread_pc, ops, last_op,
                   youtube_api_key>>
    /\ UNCHANGED <<playlist, monitorVars, legacyVars, resolutionVars, cacheVars>>

\* _monitor_loop, lines 37-42, with the cycle taken as one step: the thread
\* calls _check_channels
MonitorLoopCycle(t) ==
    /\ LoopRuns(t)
    /\ thread_pc' = [thread_pc EXCEPT ![t] = "cycle"]
    /\ UNCHANGED <<is_running, monitor_thread, joining, ops, last_op,
                   youtube_api_key>>
    /\ UNCHANGED <<playlist, monitorVars, legacyVars, resolutionVars, cacheVars>>

\* faulty variant: the loop does not look at is_running
MonitorLoopExit_KeepsRunning(t) ==
    /\ AtTest(t)
    /\ ~is_running
    /\ thread_pc' = [thread_pc EXCEPT ![t] = "cycle"]
    /\ UNCHANGED <<is_running, monitor_thread, joining, ops, last_op,
                   youtube_api_key>>
    /\ UNCHANGED <<playlist, monitorVars, legacyVars, resolutionVars, cacheVars>>

\* _monitor_loop, line 37: is_running is False, the loop and the thread end
MonitorLoopExit(t) ==
    /\ AtTest(t)
    /\ ~is_running
    /\ thread_pc' = [thread_pc EXCEPT ![t] = "dead"]
    /\ UNCHANGED <<is_running, monitor_thread, joining, ops, last_op,
                   youtube_api_key>>
    /\ UNCHANGED <<playlist, monitorVars, legacyVars, resolutionVars, cacheVars>>

\* faulty variant: the cycle runs although the key is missing
MonitorLoopBreak_RunsCycle(t) ==
    /\ AtTest(t)
    /\ is_running
    /\ ~youtube_api_key
    /\ thread_pc' = [thread_pc EXCEPT ![t] = "cycle"]
    /\ UNCHANGED <<is_running, monitor_thread, joining, ops, last_op,
                   youtube_api_key>>
    /\ UNCHANGED <<playlist, monitorVars, legacyVars, resolutionVars, cacheVars>>

\* _monitor_loop, lines 38-40: the key is missing, break
MonitorLoopBreak(t) ==
    /\ AtTest(t)
    /\ is_running
    /\ ~youtube_api_key
    /\ thread_pc' = [thread_pc EXCEPT ![t] = "dead"]
    /\ UNCHANGED <<is_running, monitor_thread, joining, ops, last_op,
                   youtube_api_key>>
    /\ UNCHANGED <<playlist, monitorVars, legacyVars, resolutionVars, cacheVars>>

\* _monitor_loop, lines 42-44, with the cycle taken as one step: the call of
\* _check_channels returns and the thread sleeps
CheckChannelsCall(t) ==
    /\ thread_pc[t] = "cycle"
    /\ thread_pc' = [thread_pc EXCEPT ![t] = "sleep"]
    /\ UNCHANGED <<is_running, monitor_thread, joining, ops, last_op,
                   youtube_api_key>>
    /\ UNCHANGED <<playlist, monitorVars, legacyVars, resolutionVars, cacheVars>>

\* faulty variant: the error of the save is swallowed and the cycle goes on
\* to the notification
StateCacheSetRaises_NotifiesAnyway ==
    /\ pc = "process" /\ todo # <<>>
    /\ LET channel_id == Head(todo)
           current_videos == channels_info[channel_id]
           last_video_ids == GetOr(channel_states, channel_id, <<>>)
           new_videos == NewVideos(current_videos, last_video_ids)
       IN  /\ ~NoVideos(current_videos)
           /\ ~IsFirstCheck(last_video_ids)
           /\ new_videos # <<>>
           /\ channel_states' = Put(channel_states, channel_id,
                                    UpdatedIds(current_videos, last_video_ids))
           /\ processed' = Put(processed, channel_id,
                               [last_video_ids |-> last_video_ids,
                                current_videos |-> current_videos,
                                new_videos |-> new_videos])
           /\ cur' = channel_id
    /\ stored' \in {stored, EmptyDict}
    /\ pc' = "notify"
    /\ todo' = Tail(todo)
    /\ UNCHANGED <<channels, playlist, is_configured, channels_info,
                   calls, deliveries, states_before, sent, observed, repeat>>
    /\ UNCHANGED <<legacyVars, controlVars, resolutionVars, cacheVars>>

(***************************************************************************)
(* Cache.set of the channel states raises (lines 107 and 121 of            *)
(* monitoring.py call it; cache.py lines 70-71 open and write the file).   *)
(* The assignment to the local dict has been made; the file is untouched,  *)
(* or it was truncated by open(..., 'w') and reads as no state from then   *)
(* on.  Nothing in _check_channels or _monitor_loop catches the error, so  *)
(* it ends the thread.                                                     *)
(***************************************************************************)
StateCacheSetRaises ==
    /\ pc = "process" /\ todo # <<>>
    /\ LET channel_id == Head(todo)
           current_videos == channels_info[channel_id]
           last_video_ids == GetOr(channel_states, channel_id, <<>>)
       IN  /\ ~NoVideos(current_videos)
           /\ \/ /\ IsFirstCheck(last_video_ids)
                 /\ channel_states' = Put(channel_states, channel_id, SeedIds(current_videos))
              \/ /\ ~IsFirstCheck(last_video_ids)
                 /\ NewVideos(current_videos, last_video_ids) # <<>>
                 /\ channel_states' = Put(channel_states, channel_id,
                                          UpdatedIds(current_videos, last_video_ids))
    /\ stored' \in {stored, EmptyDict}
    /\ pc' = "raised"
    /\ thread_pc' = [t \in ThreadIds |->
                        IF thread_pc[t] = "cycle" THEN "dead" ELSE thread_pc[t]]
    /\ UNCHANGED <<channels, playlist, is_configured, channels_info, todo,
                   processed, cur, calls, deliveries, states_before, sent,
                   observed, repeat>>
    /\ UNCHANGED <<is_running, monitor_thread, joining, ops, last_op,
                   youtube_api_key>>
    /\ UNCHANGED <<legacyVars, resolutionVars, cacheVars>>

Next ==
    \/ CheckChannelsFetch
    \/ SkipChannel
    \/ FirstCheck
    \/ FoundNew
    \/ NoNewVideos
    \/ SendNotification
    \/ CheckChannelsReturn
    \/ SourceChange

Spec == Init /\ [][Next]_vars

NextBoth ==
    \/ CheckChannelsFetch
    \/ SkipChannel
    \/ FirstCheck
    \/ FoundNew
    \/ NoNewVideos
    \/ SendNotification
    \/ CheckChannelsReturn
    \/ LegacyLoad
    \/ LegacySkip
    \/ LegacyCheck
    \/ LegacySleep

SpecBoth == InitBoth /\ [][NextBoth]_vars

(***************************************************************************)
(* The monitor thread under start_monitoring and stop_monitoring calls.    *)
(* What a cycle does to the channel states is left out here: the call of   *)
(* _check_channels is the one step CheckChannelsCall.                      *)
(***************************************************************************)
\* MonitorService.__init__, lines 14-16
InitThreads ==
    /\ InitMonitor({"@a" :> "UCa"}, {<<Video(1)>>}, FreshStores)
    /\ is_configured = TRUE
    /\ InitLegacy
    /\ is_running = FALSE
    /\ monitor_thread = 0
    /\ thread_pc = [t \in ThreadIds |-> "unborn"]
    /\ joining = 0
    /\ ops = 0
    /\ last_op = [op |-> "none", was_running |-> FALSE]
    /\ youtube_api_key \in BOOLEAN
    /\ InitResolution({EmptyDict})
    /\ InitCacheIdle

NextThreads ==
    \/ StartMonitoring
    \/ StopMonitoring
    \/ JoinReturns
    \/ JoinTimesOut
    \/ \E t \in ThreadIds : MonitorLoopCycle(t)
    \/ \E t \in ThreadIds : MonitorLoopExit(t)
    \/ \E t \in ThreadIds : MonitorLoopBreak(t)
    \/ \E t \in ThreadIds : CheckChannelsCall(t)

SpecThreads == InitThreads /\ [][NextThreads]_vars

\* a thread that can take a step of _monitor_loop takes it: the scheduler
\* runs every thread, time.sleep ends, and the cycle's requests return
ThreadStep(t) ==
    \/ MonitorLoopCycle(t)
    \/ MonitorLoopExit(t)
    \/ MonitorLoopBreak(t)
    \/ CheckChannelsCall(t)

FairSpecThreads == SpecThreads /\ \A t \in ThreadIds : WF_vars(ThreadStep(t))

(***************************************************************************)
(* The full-list poller on two channels, from whatever an earlier run      *)
(* left, with failures of the conversion, of the fetch and of the save.    *)
(***************************************************************************)
\* the uploads of a channel that only ever adds videos, newest first
UploadHistories == {[i \in 1..n |-> Video(n + 1 - i)] : n \in 1..NumItems}

TwoChannelConfigs == {("@a" :> c) @@ ("@b" :> "UCb") : c \in {"", "UCa"}}

HistoryStores ==
    UNION {[S -> {Ids(uploads) : uploads \in UploadHistories}] : S \in SUBSET AllIds}

EarlierResolutions == {EmptyDict, "@a" :> [id |-> "UCa", fresh |-> TRUE]}

InitService ==
    /\ InitMonitor(TwoChannelConfigs, UploadHistories, HistoryStores)
    /\ InitLegacy
    /\ InitRunning({TRUE})
    /\ InitResolution(EarlierResolutions)
    /\ InitCacheIdle

NextService ==
    \/ CheckChannelsFetch
    \/ SkipChannel
    \/ FirstCheck
    \/ FoundNew
    \/ NoNewVideos
    \/ SendNotification
    \/ CheckChannelsReturn
    \/ StateCacheSetRaises

SpecService == InitService /\ [][NextService]_vars

(***************************************************************************)
(* Both programs started with or without the API key in the environment,   *)
(* on the state files of an earlier run of a channel that only adds        *)
(* videos.                                                                 *)
(***************************************************************************)
InitKey ==
    /\ InitMonitor(OneChannelConfigs, UploadHistories, HistoryStores)
    /\ InitLegacyEarlier
    /\ InitRunning(BOOLEAN)
    /\ InitResolution({EmptyDict})
    /\ InitCacheIdle

NextKey ==
    \/ \E t \in ThreadIds : MonitorLoopBreak(t)
    \/ LegacyNoKey
    \/ CheckChannelsFetch
    \/ SkipChannel
    \/ FirstCheck
    \/ FoundNew
    \/ NoNewVideos
    \/ SendNotification
    \/ CheckChannelsReturn
    \/ LegacyLoad
    \/ LegacySkip
    \/ LegacyCheck
    \/ LegacySleep

SpecKey == InitKey /\ [][NextKey]_vars

(***************************************************************************)
(* Both pollers with another actor (a manual clearing of the state, a      *)
(* second process) that changes the state files while the pollers sleep    *)
(* between two cycles.                                                     *)
(***************************************************************************)
\* the channel_states entry of state_cache is deleted or set by another actor
OtherWritesStates ==
    /\ pc = "sleep"
    /\ \E changed \in HistoryStores \ {stored} : stored' = changed
    /\ other_writes' = other_writes \cup {"state"}
    /\ UNCHANGED <<channels, playlist, is_configured, pc, channel_states,
                   channels_info, todo, processed, cur, calls, deliveries,
                   states_before, sent, observed, repeat>>
    /\ UNCHANGED <<legacyVars, controlVars, resolutionVars, cacheFileVars>>

\* STATE_FILE of the legacy poller is removed or rewritten by another actor
OtherWritesLegacyStates ==
    /\ legacy_pc = "sleep"
    /\ \E changed \in EarlierLegacyStates \ {legacy_states} :
         legacy_states' = changed
    /\ other_writes' = other_writes \cup {"legacy"}
    /\ UNCHANGED <<legacy_cache, legacy_pc, legacy_local, legacy_todo,
                   legacy_seen, legacy_calls, playlist>>
    /\ UNCHANGED <<monitorVars, controlVars, resolutionVars, cacheFileVars>>

InitReload ==
    /\ InitMonitor(ConvertedConfigs, UploadHistories, HistoryStores)
    /\ InitLegacyEarlier
    /\ InitRunning({TRUE})
    /\ InitResolution({EmptyDict})
    /\ InitCacheIdle

NextReload ==
    \/ CheckChannelsFetch
    \/ SkipChannel
    \/ FirstCheck
    \/ FoundNew
    \/ NoNewVideos
    \/ SendNotification
    \/ CheckChannelsReturn
    \/ LegacyLoad
    \/ LegacySkip
    \/ LegacyCheck
    \/ LegacySleep
    \/ OtherWritesStates
    \/ OtherWritesLegacyStates

SpecReload == InitReload /\ [][NextReload]_vars

(***************************************************************************)
(* The full-list poller on one channel whose uploads stay as they are: in  *)
(* any cycle the fetch can fail and the save of the channel states can     *)
(* raise.                                                                  *)
(***************************************************************************)
InitRetry ==
    /\ InitMonitor(ConvertedConfigs, UploadHistories, HistoryStores)
    /\ InitLegacy
    /\ InitRunning({TRUE})
    /\ InitResolution({EmptyDict})
    /\ InitCacheIdle

NextRetry ==
    \/ CheckChannelsFetch
    \/ SkipChannel
    \/ FirstCheck
    \/ FoundNew
    \/ NoNewVideos
    \/ SendNotification
    \/ CheckChannelsReturn
    \/ StateCacheSetRaises

SpecRetry == InitRetry /\ [][NextRetry]_vars

\* _monitor_loop and _check_channels go on: the scheduler runs the monitor
\* thread, time.sleep ends, and every request of the cycle returns
LoopStep ==
    \/ CheckChannelsFetch
    \/ SkipChannel
    \/ FirstCheck
    \/ FoundNew
    \/ NoNewVideos
    \/ SendNotification
    \/ CheckChannelsReturn

\* get_multiple_channels_info returns the videos of every configured channel
FetchSucceeds ==
    /\ CheckChannelsFetch
    /\ \A c \in AllIds : c \in DOMAIN channels_info' /\ channels_info'[c] # <<>>

\* the loop is scheduled fairly, and the requests of the batched fetch do
\* not fail for ever
FairSpecRetry == SpecRetry /\ WF_vars(LoopStep) /\ SF_vars(FetchSucceeds)

(***************************************************************************)
(* The full-list poller with its control: stop_monitoring and              *)
(* start_monitoring are called at any point, between two cycles and at     *)
(* every step inside a cycle.  The monitor thread tests is_running only at *)
(* the top of its loop (line 37), so a cycle that has begun runs to its    *)
(* end.                                                                    *)
(***************************************************************************)
InitStop ==
    /\ InitMonitor(ConvertedConfigs, UploadHistories, HistoryStores)
    /\ InitLegacy
    /\ InitRunning({TRUE})
    /\ InitResolution({EmptyDict})
    /\ InitCacheIdle

NextStop ==
    \/ CheckChannelsFetch
    \/ SkipChannel
    \/ FirstCheck
    \/ FoundNew
    \/ NoNewVideos
    \/ SendNotification
    \/ CheckChannelsReturn
    \/ StartMonitoring
    \/ StopMonitoring
    \/ JoinReturns
    \/ JoinTimesOut
    \/ \E t \in ThreadIds : MonitorLoopExit(t)

SpecStop == InitStop /\ [][NextStop]_vars

(***************************************************************************)
(* config.py: the Config object and the calls that rename and remove a     *)
(* channel.  The calls change the dict in memory; _save_channels then      *)
(* writes it to the file and its result is not looked at.                  *)
(***************************************************************************)
\* the identifiers a user can give
ConfigNames == Identifiers \cup {"@c"}

\* the values of config.channels: a channel id, or "" while not converted
ConfigValues == {"", "UCa", "UCb", "UCc"}

\* the dicts _load_channels can return
LoadableConfigs == UNION {[S -> ConfigValues] : S \in SUBSET ConfigNames}

\* Config.update_username, lines 142-146: the dict after the call
update_username(conf, old_identifier, new_identifier) ==
    IF old_identifier \notin DOMAIN conf THEN conf
    ELSE [k \in ((DOMAIN conf) \ {old_identifier}) \cup {new_identifier} |->
             IF k = new_identifier THEN conf[old_identifier] ELSE conf[k]]

\* Config.remove_channel, lines 90-93: the dict after the call
remove_channel(conf, identifier) ==
    [k \in (DOMAIN conf) \ {identifier} |-> conf[k]]

\* Config.update_username, lines 140-148
UpdateUsername ==
    /\ \E old_identifier \in ConfigNames : \E new_identifier \in ConfigNames :
         /\ channels' = update_username(channels, old_identifier, new_identifier)
         /\ last_op' = [op |-> "update_username",
                        old |-> old_identifier, new |-> new_identifier,
                        before |-> channels,
                        returned |-> old_identifier \in DOMAIN channels]
    /\ UNCHANGED <<playlist, stored, is_configured, pc, channel_states,
                   channels_info, todo, processed, cur, calls, deliveries,
                   states_before, sent, observed, repeat>>
    /\ UNCHANGED <<is_running, monitor_thread, thread_pc, joining, ops,
                   youtube_api_key>>
    /\ UNCHANGED <<legacyVars, resolutionVars, cacheVars>>

\* Config.remove_channel, lines 88-95
RemoveChannel ==
    /\ \E identifier \in ConfigNames :
         /\ channels' = remove_channel(channels, identifier)
         /\ last_op' = [op |-> "remove_channel",
                        old |-> identifier, new |-> identifier,
                        before |-> channels,
                        returned |-> identifier \in DOMAIN channels]
    /\ UNCHANGED <<playlist, stored, is_configured, pc, channel_states,
                   channels_info, todo, processed, cur, calls, deliveries,
                   states_before, sent, observed, repeat>>
    /\ UNCHANGED <<is_running, monitor_thread, thread_pc, joining, ops,
                   youtube_api_key>>
    /\ UNCHANGED <<legacyVars, resolutionVars, cacheVars>>

\* Config.__init__, lines 12-21: the channels are loaded from the file; no
\* monitor is running and nothing was fetched
InitConfig ==
    /\ channels \in LoadableConfigs
    /\ playlist = EmptyDict
    /\ stored = EmptyDict
    /\ is_configured = TRUE
    /\ pc = "sleep"
    /\ channel_states = EmptyDict
    /\ channels_info = EmptyDict
    /\ todo = <<>>
    /\ processed = EmptyDict
    /\ cur = ""
    /\ calls = <<>>
    /\ deliveries = <<>>
    /\ states_before = EmptyDict
    /\ sent = EmptyDict
    /\ observed = EmptyDict
    /\ repeat = EmptyDict
    /\ InitLegacy
    /\ youtube_api_key = TRUE
    /\ is_running = FALSE
    /\ monitor_thread = 0
    /\ thread_pc = [t \in ThreadIds |-> "unborn"]
    /\ joining = 0
    /\ ops = 0
    /\ last_op = [op |-> "none", was_running |-> FALSE]
    /\ username_cache = EmptyDict
    /\ resolve_log = EmptyDict
    /\ InitCacheIdle

NextConfig ==
    \/ UpdateUsername
    \/ RemoveChannel

SpecConfig == InitConfig /\ [][NextConfig]_vars

(***************************************************************************)
(* Both pollers with saves that can raise.  save_channel_states of the     *)
(* legacy poller (youtube_monitor.py, lines 121-124) opens the state file  *)
(* for writing and dumps the dict; monitor_channels calls it at line 322,  *)
(* outside any try, before send_notification.                              *)
(***************************************************************************)
\* save_channel_states raises: the local dict has the new id, the file is
\* untouched or was truncated by open(STATE_FILE, 'w') and loads as {};
\* the error leaves monitor_channels and ends its thread
LegacySaveRaises ==
    /\ legacy_pc = "loop" /\ legacy_todo # <<>>
    /\ LET channel_id == Head(legacy_todo)
           channel_key == ChannelKey(channel_id)
       IN  \E cache_hit \in {h \in BOOLEAN : h => channel_id \in DOMAIN legacy_cache} :
             LET video == IF cache_hit THEN legacy_cache[channel_id]
                          ELSE Head(playlist[channel_id])
             IN  IF LegacyChanged(legacy_local, channel_key, video)
                 THEN /\ legacy_cache' = Put(legacy_cache, channel_id, video)
                      /\ legacy_local' = Put(legacy_local, channel_key, video.id)
                 ELSE FALSE
    /\ legacy_states' \in {legacy_states, EmptyDict}
    /\ legacy_pc' = "raised"
    /\ UNCHANGED <<legacy_todo, legacy_seen, legacy_calls, playlist>>
    /\ UNCHANGED <<monitorVars, controlVars, resolutionVars, cacheVars>>

InitPersist ==
    /\ InitMonitor(ConvertedConfigs, UploadHistories, HistoryStores)
    /\ InitLegacyEarlier
    /\ InitRunning({TRUE})
    /\ InitResolution({EmptyDict})
    /\ InitCacheIdle

NextPersist ==
    \/ CheckChannelsFetch
    \/ SkipChannel
    \/ FirstCheck
    \/ FoundNew
    \/ NoNewVideos
    \/ SendNotification
    \/ CheckChannelsReturn
    \/ StateCacheSetRaises
    \/ LegacyLoad
    \/ LegacySkip
    \/ LegacyCheck
    \/ LegacySleep
    \/ LegacySaveRaises

SpecPersist == InitPersist /\ [][NextPersist]_vars

(***************************************************************************)
(* The full-list poller on two channels whose store is shared with another *)
(* actor (a second process, a manual edit, a clearing of the state): the   *)
(* entry 'channel_states' is changed at any point inside a cycle, after    *)
(* the cycle has read it.  Every Cache call is made under the lock, the    *)
(* cycle as a whole is not: it reads the entry once (line 48) and writes   *)
(* the dict it read, with its own changes, at lines 107 and 121.           *)
(***************************************************************************)
\* the channel_states entry is deleted or set by another actor while the
\* cycle is between two of its Cache calls (once in a cycle)
OtherWritesDuringCycle ==
    /\ pc \in {"process", "notify"}
    /\ "state" \notin other_writes
    /\ \E changed \in HistoryStores \ {stored} : stored' = changed
    /\ other_writes' = other_writes \cup {"state"}
    /\ UNCHANGED <<channels, playlist, is_configured, pc, channel_states,
                   channels_info, todo, processed, cur, calls, deliveries,
                   states_before, sent, observed, repeat>>
    /\ UNCHANGED <<legacyVars, controlVars, resolutionVars, cacheFileVars>>

\* two channels, both converted
ConvertedTwoChannelConfigs ==
    {conf \in TwoChannelConfigs : \A i \in DOMAIN conf : conf[i] # ""}

\* the uploads of a channel that has added all its videos
FullHistories == {uploads \in UploadHistories : Len(uploads) = NumItems}

InitShared ==
    /\ InitMonitor(ConvertedTwoChannelConfigs, FullHistories, HistoryStores)
    /\ is_configured = TRUE
    /\ InitLegacy
    /\ InitRunning({TRUE})
    /\ InitResolution({EmptyDict})
    /\ InitCacheIdle

NextShared ==
    \/ CheckChannelsFetch
    \/ SkipChannel
    \/ FirstCheck
    \/ FoundNew
    \/ NoNewVideos
    \/ SendNotification
    \/ CheckChannelsReturn
    \/ OtherWritesDuringCycle

SpecShared == InitShared /\ [][NextShared]_vars

(***************************************************************************)
(* youtube_monitor.py as a Flask application: the routes and the hook that *)
(* runs before every request. channels holds CHANNEL_IDS of the .env file  *)
(* (each id under itself; add_channel refuses an id that is in the list),  *)
(* thread_pc the threads that run monitor_channels, last_op the last       *)
(* request and its HTTP status.                                            *)
(***************************************************************************)
\* lines 330-334: threading.Thread(target=monitor_channels, daemon=True),
\* started before the view function of the request runs
StartMonitor ==
    /\ ops < MaxOps
    /\ \E t \in ThreadIds : thread_pc[t] = "unborn"
    /\ ops' = ops + 1
    /\ thread_pc' = [thread_pc EXCEPT ![NewThread] = "test"]

\* lines 43-45
RouteIndex ==
    /\ StartMonitor
    /\ last_op' = [op |-> "index", channel_id |-> "", status |-> 200]
    /\ UNCHANGED <<is_running, monitor_thread, joining, youtube_api_key>>
    /\ UNCHANGED <<playlist, monitorVars, legacyVars, resolutionVars, cacheVars>>

\* lines 105-108
RouteGetChannels ==
    /\ StartMonitor
    /\ last_op' = [op |-> "get_channels", channel_id |-> "", status |-> 200]
    /\ UNCHANGED <<is_running, monitor_thread, joining, youtube_api_key>>
    /\ UNCHANGED <<playlist, monitorVars, legacyVars, resolutionVars, cacheVars>>

\* lines 47-60
RouteAddChannel(channel_id) ==
    /\ StartMonitor
    /\ IF channel_id = "" \/ channel_id \in DOMAIN channels
       THEN /\ last_op' = [op |-> "add_channel", channel_id |-> channel_id,
                           status |-> 400]
            /\ UNCHANGED channels
       ELSE /\ last_op' = [op |-> "add_channel", channel_id |-> channel_id,
                           status |-> 200]
            /\ channels' = Put(channels, channel_id, channel_id)
    /\ UNCHANGED <<is_running, monitor_thread, joining, youtube_api_key>>
    /\ UNCHANGED <<playlist, stored, is_configured, pc, channel_states,
                   channels_info, todo, processed, cur, calls, deliveries,
                   states_before, sent, observed, repeat>>
    /\ UNCHANGED <<legacyVars, resolutionVars, cacheVars>>

\* lines 62-75
RouteRemoveChannel(channel_id) ==
    /\ StartMonitor
    /\ IF channel_id = ""
       THEN /\ last_op' = [op |-> "remove_channel", channel_id |-> channel_id,
                           status |-> 400]
            /\ UNCHANGED channels
       ELSE IF channel_id \notin DOMAIN channels
       THEN /\ last_op' = [op |-> "remove_channel", channel_id |-> channel_id,
                           status |-> 404]
            /\ UNCHANGED channels
       ELSE /\ last_op' = [op |-> "remove_channel", channel_id |-> channel_id,
                           status |-> 200]
            /\ channels' = [c \in DOMAIN channels \ {channel_id} |-> channels[c]]
    /\ UNCHANGED <<is_running, monitor_thread, joining, youtube_api_key>>
    /\ UNCHANGED <<playlist, stored, is_configured, pc, channel_states,
                   channels_info, todo, processed, cur, calls, deliveries,
                   states_before, sent, observed, repeat>>
    /\ UNCHANGED <<legacyVars, resolutionVars, cacheVars>>

\* lines 303-305: no API key, monitor_channels returns
MonitorChannelsNoKey(t) ==
    /\ thread_pc[t] = "test"
    /\ ~youtube_api_key
    /\ thread_pc' = [thread_pc EXCEPT ![t] = "dead"]
    /\ UNCHANGED <<is_running, monitor_thread, joining, ops, last_op,
                   youtube_api_key>>
    /\ UNCHANGED <<playlist, monitorVars, legacyVars, resolutionVars, cacheVars>>

\* lines 306-326: the thread enters "while True" or comes back from sleep
\* and runs the body
MonitorChannelsCycle(t) ==
    /\ thread_pc[t] \in {"test", "sleep"}
    /\ youtube_api_key
    /\ thread_pc' = [thread_pc EXCEPT ![t] = "cycle"]
    /\ UNCHANGED <<is_running, monitor_thread, joining, ops, last_op,
                   youtube_api_key>>
    /\ UNCHANGED <<playlist, monitorVars, legacyVars, resolutionVars, cacheVars>>

\* lines 327-328: time.sleep(CHECK_INTERVAL)
MonitorChannelsSleep(t) ==
    /\ thread_pc[t] = "cycle"
    /\ thread_pc' = [thread_pc EXCEPT ![t] = "sleep"]
    /\ UNCHANGED <<is_running, monitor_thread, joining, ops, last_op,
                   youtube_api_key>>
    /\ UNCHANGED <<playlist, monitorVars, legacyVars, resolutionVars, cacheVars>>

InitApp ==
    /\ channels \in {[c \in ids |-> c] : ids \in SUBSET (ConfigValues \ {""})}
    /\ playlist = EmptyDict
    /\ stored = EmptyDict
    /\ is_configured = TRUE
    /\ pc = "sleep"
    /\ channel_states = EmptyDict
    /\ channels_info = EmptyDict
    /\ todo = <<>>
    /\ processed = EmptyDict
    /\ cur = ""
    /\ calls = <<>>
    /\ deliveries = <<>>
    /\ states_before = EmptyDict
    /\ sent = EmptyDict
    /\ observed = EmptyDict
    /\ repeat = EmptyDict
    /\ InitLegacy
    /\ youtube_api_key \in BOOLEAN
    /\ is_running = FALSE
    /\ monitor_thread = 0
    /\ thread_pc = [t \in ThreadIds |-> "unborn"]
    /\ joining = 0
    /\ ops = 0
    /\ last_op = [op |-> "none", channel_id |-> "", status |-> 0]
    /\ username_cache = EmptyDict
    /\ resolve_log = EmptyDict
    /\ InitCacheIdle

NextApp ==
    \/ RouteIndex
    \/ RouteGetChannels
    \/ \E channel_id \in ConfigValues : RouteAddChannel(channel_id)
    \/ \E channel_id \in ConfigValues : RouteRemoveChannel(channel_id)
    \/ \E t \in ThreadIds : MonitorChannelsNoKey(t)
    \/ \E t \in ThreadIds : MonitorChannelsCycle(t)
    \/ \E t \in ThreadIds : MonitorChannelsSleep(t)

SpecApp == InitApp /\ [][NextApp]_vars


(***************************************************************************)
(* cache.py: one Cache object, its file and the clock.                     *)
(***************************************************************************)
CacheKeys == {"k1", "k2"}

\* JSON values as texts; "null" is also what Python's None is written as
JsonValues == {"null", "x", "y"}

\* the ttl_seconds a Cache can be constructed with (0 = never expires)
Ttls == 0..MaxTtl

\* the last reading of the clock
MaxTicks == MaxSeconds * TicksPerSecond

\* datetime.now().strftime('%Y-%m-%d %H:%M:%S'): the reading of the clock,
\* cut to whole seconds
strftime(t) == t \div TicksPerSecond

\* datetime.strptime(timestamp_str, '%Y-%m-%d %H:%M:%S'): the reading of the
\* clock at the beginning of that second
strptime(timestamp) == timestamp * TicksPerSecond

\* timedelta(seconds=ttl)
timedelta(seconds) == seconds * TicksPerSecond

\* faulty variant: the test for a TTL of zero is missing
is_expired_ZeroExpires(timestamp, ttl, t) ==
    t - strptime(timestamp) > timedelta(ttl)

\* faulty variant: an entry expires as soon as its age reaches the TTL
is_expired_AtTtl(timestamp, ttl, t) ==
    IF ttl = 0 THEN FALSE
    ELSE t - strptime(timestamp) >= timedelta(ttl)

\* Cache._is_expired, lines 17-26, at clock reading t
is_expired(timestamp, ttl, t) ==
    IF ttl = 0 THEN FALSE
    ELSE t - strptime(timestamp) > timedelta(ttl)

\* a cache file that does not hold JSON
CorruptFile == [state |-> "corrupt", entries |-> EmptyDict]

\* a cache file whose bytes are not text in the encoding open() reads with
UndecodableFile == [state |-> "undecodable", entries |-> EmptyDict]

\* json.load(f) under except (json.JSONDecodeError, FileNotFoundError): the
\* UnicodeDecodeError of f.read() is neither of the two and leaves the call
LoadRaises(file) == file.state = "undecodable"

\* Cache.get, lines 30-48: what get returns for the file as it is
CacheGetValue(file, key, ttl, t) ==
    IF file.state # "ok" THEN "null"
    ELSE IF key \notin DOMAIN file.entries THEN "null"
    ELSE IF is_expired(file.entries[key].timestamp, ttl, t) THEN "null"
    ELSE file.entries[key].data

\* Cache.set, lines 54-61: the dict loaded before the update
CacheLoadForSet(file) == IF file.state = "ok" THEN file.entries ELSE EmptyDict

\* Cache.set, lines 54-67: the dict that is written
CacheSetEntries(file, key, value, t) ==
    Put(CacheLoadForSet(file), key, [timestamp |-> strftime(t), data |-> value])

\* Cache.delete, lines 85-86: the dict that is written
CacheDeleteEntries(entries, key) ==
    [k \in (DOMAIN entries) \ {key} |-> entries[k]]

\* faulty variant: cleanup empties the cache
CleanedEntries_DropsAll(entries, ttl, t) == EmptyDict

\* faulty variant: an entry is dropped as soon as its age reaches the TTL
CleanedEntries_AtTtl(entries, ttl, t) ==
    [k \in {j \in DOMAIN entries :
               ~is_expired_AtTtl(entries[j].timestamp, ttl, t)} |-> entries[k]]

\* Cache.cleanup, lines 104-109: the dict that is written
CleanedEntries(entries, ttl, t) ==
    [k \in {j \in DOMAIN entries :
               ~is_expired(entries[j].timestamp, ttl, t)} |-> entries[k]]

\* the cache file after a call that writes the dict it loaded
FileAfter(file, op, key, value, ttl, t) ==
    IF op = "set"
    THEN [state |-> "ok", entries |-> CacheSetEntries(file, key, value, t)]
    ELSE IF file.state # "ok" THEN file
    ELSE IF op = "delete"
    THEN [state |-> "ok", entries |-> CacheDeleteEntries(file.entries, key)]
    ELSE [state |-> "ok", entries |-> CleanedEntries(file.entries, ttl, t)]

\* last_set after a set or a delete that returned
LastSetAfter(sets, op, key, value, t) ==
    IF op = "set" THEN Put(sets, key, [value |-> value, at |-> t])
    ELSE IF op = "delete" THEN [k \in (DOMAIN sets) \ {key} |-> sets[k]]
    ELSE sets

\* Cache.get, lines 28-48
CacheGet ==
    /\ \E key \in CacheKeys :
         cache_ret' = [op |-> "get", key |-> key,
                       value |-> CacheGetValue(cache_file, key, ttl_seconds, now),
                       raised |-> LoadRaises(cache_file)]
    /\ UNCHANGED <<now, cache_file, ttl_seconds, last_set, uncleaned_file,
                   lockVars, other_writes>>
    /\ UNCHANGED <<playlist, monitorVars, legacyVars, controlVars, resolutionVars>>

\* Cache.set, lines 50-71
CacheSet ==
    /\ \E key \in CacheKeys : \E value \in JsonValues :
         /\ cache_ret' = [op |-> "set", key |-> key, value |-> value,
                          raised |-> LoadRaises(cache_file)]
         /\ IF LoadRaises(cache_file)
            THEN UNCHANGED <<cache_file, uncleaned_file, last_set>>
            ELSE /\ cache_file' =
                      FileAfter(cache_file, "set", key, value, ttl_seconds, now)
                 /\ uncleaned_file' =
                      FileAfter(uncleaned_file, "set", key, value, ttl_seconds, now)
                 /\ last_set' = LastSetAfter(last_set, "set", key, value, now)
    /\ UNCHANGED <<now, ttl_seconds, lockVars, other_writes>>
    /\ UNCHANGED <<playlist, monitorVars, legacyVars, controlVars, resolutionVars>>

\* Cache.delete, lines 73-90
CacheDelete ==
    /\ \E key \in CacheKeys :
         /\ cache_ret' = [op |-> "delete", key |-> key, value |-> "null",
                          raised |-> LoadRaises(cache_file)]
         /\ cache_file' = FileAfter(cache_file, "delete", key, "null", ttl_seconds, now)
         /\ uncleaned_file' =
              FileAfter(uncleaned_file, "delete", key, "null", ttl_seconds, now)
         /\ last_set' = LastSetAfter(last_set, "delete", key, "null", now)
    /\ UNCHANGED <<now, ttl_seconds, lockVars, other_writes>>
    /\ UNCHANGED <<playlist, monitorVars, legacyVars, controlVars, resolutionVars>>

\* Cache.cleanup, lines 92-113
CacheCleanup ==
    /\ cache_ret' = [op |-> "cleanup", key |-> "", value |-> "null",
                     raised |-> LoadRaises(cache_file)]
    /\ cache_file' = FileAfter(cache_file, "cleanup", "", "null", ttl_seconds, now)
    /\ UNCHANGED <<now, ttl_seconds, last_set, uncleaned_file, lockVars, other_writes>>
    /\ UNCHANGED <<playlist, monitorVars, legacyVars, controlVars, resolutionVars>>

\* time passes
Tick ==
    /\ now < MaxTicks
    /\ now' = now + 1
    /\ cache_ret' = NoRet
    /\ UNCHANGED <<cache_file, ttl_seconds, last_set, uncleaned_file, lockVars,
                   other_writes>>
    /\ UNCHANGED <<playlist, monitorVars, legacyVars, controlVars, resolutionVars>>

\* the files a Cache object can find when it is constructed: none, or one
\* that cannot be read
UnusableFiles == {MissingFile, CorruptFile, UndecodableFile}

\* a Cache object that was just constructed
InitCache ==
    /\ InitMonitor({"@a" :> "UCa"}, {<<Video(1)>>}, FreshStores)
    /\ is_configured = TRUE
    /\ InitLegacy
    /\ InitRunning({TRUE})
    /\ InitResolution({EmptyDict})
    /\ now = 0
    /\ cache_file \in UnusableFiles
    /\ ttl_seconds \in Ttls
    /\ cache_ret = NoRet
    /\ last_set = EmptyDict
    /\ uncleaned_file = cache_file
    /\ InitLockIdle
    /\ other_writes = {}

NextCache ==
    \/ CacheGet
    \/ CacheSet
    \/ CacheDelete
    \/ CacheCleanup
    \/ Tick

SpecCache == InitCache /\ [][NextCache]_vars

(***************************************************************************)
(* cache.py under its lock: every method runs inside "with self._lock".    *)
(* Two callers use the Cache object; a call takes the lock, reads the      *)
(* file, writes it where the method writes, and gives the lock back when   *)
(* the with block is left, by its end, by a return or by an exception.     *)
(* FileLock(lock_file) is exclusive between all holders, in and outside    *)
(* the process, and is created without a timeout.                          *)
(***************************************************************************)
CacheOps == {"get", "set", "delete", "cleanup"}

\* the caller is inside the with block
InCritical(c) == cache_call[c].pc \in {"locked", "loaded"}

\* what a call that has ended leaves in cache_ret
CallReturn(cc, value, raised) ==
    [op |-> cc.op, key |-> cc.key, value |-> value, raised |-> raised]

\* a caller calls get, set, delete or cleanup
CacheCallBegins(c) ==
    /\ cache_call[c].pc = "idle"
    /\ \E op \in CacheOps :
       \E key \in IF op = "cleanup" THEN {""} ELSE CacheKeys :
       \E value \in IF op = "set" THEN JsonValues ELSE {"null"} :
         cache_call' = [cache_call EXCEPT ![c] =
                          [pc |-> "acquire", op |-> op, key |-> key,
                           value |-> value, loaded |-> EmptyDict]]
    /\ UNCHANGED <<now, cache_file, ttl_seconds, cache_ret, last_set,
                   uncleaned_file, lock, other_writes>>
    /\ UNCHANGED <<playlist, monitorVars, legacyVars, controlVars, resolutionVars>>

\* faulty variant: the caller enters without waiting for the lock
LockAcquire_NoWait(c) ==
    /\ cache_call[c].pc = "acquire"
    /\ lock' = c
    /\ cache_call' = [cache_call EXCEPT ![c].pc = "locked"]
    /\ UNCHANGED <<now, cache_file, ttl_seconds, cache_ret, last_set,
                   uncleaned_file, other_writes>>
    /\ UNCHANGED <<playlist, monitorVars, legacyVars, controlVars, resolutionVars>>

\* "with self._lock:" (lines 30, 52, 75, 94): the caller waits until nobody
\* holds the lock and takes it
LockAcquire(c) ==
    /\ cache_call[c].pc = "acquire"
    /\ lock = "free"
    /\ lock' = c
    /\ cache_call' = [cache_call EXCEPT ![c].pc = "locked"]
    /\ UNCHANGED <<now, cache_file, ttl_seconds, cache_ret, last_set,
                   uncleaned_file, other_writes>>
    /\ UNCHANGED <<playlist, monitorVars, legacyVars, controlVars, resolutionVars>>

\* the call ends without writing: get (lines 31-48), a load that raises,
\* and the early returns of delete and cleanup (lines 76-83, 95-102)
EndsAfterRead(cc, file) ==
    \/ cc.op = "get"
    \/ LoadRaises(file)
    \/ cc.op \in {"delete", "cleanup"} /\ file.state # "ok"

\* the body of the with block up to the point where the file has been read
LockedRead(c) ==
    /\ cache_call[c].pc = "locked"
    /\ IF EndsAfterRead(cache_call[c], cache_file)
       THEN /\ cache_ret' =
                 CallReturn(cache_call[c],
                            IF cache_call[c].op = "get"
                            THEN CacheGetValue(cache_file, cache_call[c].key,
                                               ttl_seconds, now)
                            ELSE cache_call[c].value,
                            LoadRaises(cache_file))
            /\ cache_call' = [cache_call EXCEPT ![c] = IdleCall]
            /\ lock' = "free"
       ELSE /\ cache_call' = [cache_call EXCEPT
                                 ![c].pc = "loaded",
                                 ![c].loaded = CacheLoadForSet(cache_file)]
            /\ UNCHANGED <<cache_ret, lock>>
    /\ UNCHANGED <<now, cache_file, ttl_seconds, last_set, uncleaned_file,
                   other_writes>>
    /\ UNCHANGED <<playlist, monitorVars, legacyVars, controlVars, resolutionVars>>

\* the rest of the with block: the dict that was loaded is changed and
\* written (lines 64-71, 85-90, 104-113), and the lock is given back
LockedWrite(c) ==
    /\ cache_call[c].pc = "loaded"
    /\ LET cc == cache_call[c]
           loaded_file == [state |-> "ok", entries |-> cc.loaded]
       IN  /\ cache_file' =
                FileAfter(loaded_file, cc.op, cc.key, cc.value, ttl_seconds, now)
           /\ uncleaned_file' =
                IF cc.op = "cleanup" THEN uncleaned_file
                ELSE FileAfter(uncleaned_file, cc.op, cc.key, cc.value,
                               ttl_seconds, now)
           /\ last_set' = LastSetAfter(last_set, cc.op, cc.key, cc.value, now)
           /\ cache_ret' = CallReturn(cc, cc.value, FALSE)
    /\ cache_call' = [cache_call EXCEPT ![c] = IdleCall]
    /\ lock' = "free"
    /\ UNCHANGED <<now, ttl_seconds, other_writes>>
    /\ UNCHANGED <<playlist, monitorVars, legacyVars, controlVars, resolutionVars>>

\* another process takes the lock file
OtherAcquires ==
    /\ lock = "free"
    /\ lock' = "other"
    /\ UNCHANGED <<now, cache_file, ttl_seconds, cache_ret, last_set,
                   uncleaned_file, cache_call, other_writes>>
    /\ UNCHANGED <<playlist, monitorVars, legacyVars, controlVars, resolutionVars>>

\* the other process gives the lock file back
OtherReleases ==
    /\ lock = "other"
    /\ lock' = "free"
    /\ UNCHANGED <<now, cache_file, ttl_seconds, cache_ret, last_set,
                   uncleaned_file, cache_call, other_writes>>
    /\ UNCHANGED <<playlist, monitorVars, legacyVars, controlVars, resolutionVars>>

InitLock == InitCache

NextLock ==
    \/ \E c \in Callers : CacheCallBegins(c)
    \/ \E c \in Callers : LockAcquire(c)
    \/ \E c \in Callers : LockedRead(c)
    \/ \E c \in Callers : LockedWrite(c)
    \/ OtherAcquires
    \/ OtherReleases

SpecLock == InitLock /\ [][NextLock]_vars

\* a caller inside a Cache call goes on: the scheduler runs every thread,
\* and reading and writing the file end.  Nothing makes the other process
\* give the lock back, and nothing makes a caller call
CallerStep(c) ==
    \/ LockAcquire(c)
    \/ LockedRead(c)
    \/ LockedWrite(c)

FairSpecLock == SpecLock /\ \A c \in Callers : WF_vars(CallerStep(c))

(***************************************************************************)
(* What the claims speak about, stated from the fetched lists and from the *)
(* store as it was when the cycle began.                                   *)
(***************************************************************************)
\* the channel was iterated by this cycle with a non-empty list of videos
Reconciled(c) == c \in DOMAIN processed

\* the channel had persisted state when the cycle began
HadState(c) == c \in DOMAIN states_before /\ states_before[c] # <<>>

\* the videos of currentItems whose id is not a member of recentItemIds
UnseenVideos(currentItems, recentItemIds) ==
    {v \in Range(currentItems) : \A k \in 1..Len(recentItemIds) : recentItemIds[k] # v.id}

\* position of a video in a list without repetitions
Position(list, v) == CHOOSE i \in 1..Len(list) : list[i] = v

\* selected holds exactly the videos of the set chosen, in the order of list
IsOrderedSelection(selected, chosen, list) ==
    /\ Range(selected) = chosen
    /\ Len(selected) = Cardinality(chosen)
    /\ \A i, j \in 1..Len(selected) :
          i < j => Position(list, selected[i]) < Position(list, selected[j])

RECURSIVE ConcatVideos(_)
\* the videos carried by a sequence of notifier calls, in the order sent
ConcatVideos(cs) == IF cs = <<>> THEN <<>> ELSE Head(cs).videos \o ConcatVideos(Tail(cs))

\* the emails sent in this cycle for one channel
DeliveriesFor(c) == SelectSeq(deliveries, LAMBDA d : d.channel = c)

(***************************************************************************)
(* C1: over any sequence of poll cycles for one channel, no video id is    *)
(* carried by the notifications of more than one cycle: a video notified   *)
(* by an earlier cycle is not notified again by the current one.           *)
(***************************************************************************)
C1_NotifiedAtMostOnce ==
    \A c \in AllIds : CallIds(CallsFor(c)) \cap sent[c] = {}

(***************************************************************************)
(* C2: first observation. When a channel has no persisted state and the    *)
(* source returns a non-empty list, the cycle persists the ids of the      *)
(* current items in source order and sends no notification for the         *)
(* channel. The legacy poller fetches the latest item only (maxResults=1): *)
(* its list of current items is that one item, whose id it persists, and   *)
(* it sends no notification either.                                        *)
(***************************************************************************)
C2_FirstObservationSeeds ==
    /\ \A c \in AllIds :
          (Reconciled(c) /\ ~HadState(c)) =>
              /\ c \in DOMAIN stored
              /\ stored[c] = Ids(get_recent_videos(playlist[c], RECENT_MAX_RESULTS))
              /\ CallsFor(c) = <<>>
              /\ DeliveriesFor(c) = <<>>
    /\ \A c \in AllIds :
          (c \in DOMAIN legacy_seen /\ legacy_seen[c].first) =>
              /\ ChannelKey(c) \in DOMAIN legacy_states
              /\ legacy_states[ChannelKey(c)] = Head(playlist[c]).id
              /\ \A i \in 1..Len(legacy_calls) : legacy_calls[i].channel # c

C2_Witness ==
    \E c \in AllIds :
        /\ CycleDone /\ Reconciled(c) /\ ~HadState(c)
        /\ Len(stored[c]) = MaxLen
        /\ legacy_pc = "loop" /\ legacy_todo = <<>>
        /\ c \in DOMAIN legacy_seen /\ legacy_seen[c].first
        /\ legacy_states[ChannelKey(c)] = stored[c][1]

(***************************************************************************)
(* C3: for a channel with non-empty persisted state, the videos notified   *)
(* in a cycle are exactly the videos of currentItems whose id is not in    *)
(* the persisted recentItemIds, in the relative order of currentItems,     *)
(* whatever their publication times.                                       *)
(***************************************************************************)
C3_NotifiedAreTheUnseenInOrder ==
    CycleDone =>
        \A c \in AllIds :
            (Reconciled(c) /\ HadState(c)) =>
                IsOrderedSelection(ConcatVideos(CallsFor(c)),
                                   UnseenVideos(channels_info[c], states_before[c]),
                                   channels_info[c])

\* two unseen videos notified oldest first, as the source listed them
C3_Witness ==
    \E c \in AllIds :
        /\ CycleDone /\ Reconciled(c) /\ HadState(c)
        /\ Len(CallsFor(c)) = 1
        /\ LET vs == CallsFor(c)[1].videos
           IN  Len(vs) = 2 /\ vs[1].published_at < vs[2].published_at

(***************************************************************************)
(* C4: when a poll finds new items, the persisted recentItemIds becomes    *)
(* the new ids prepended to the prior list, truncated to 20, so that ids   *)
(* seen before and no longer listed by the source are retained.            *)
(***************************************************************************)
C4_NewIdsPrependedToPrior ==
    \A c \in AllIds :
        (Reconciled(c) /\ HadState(c)
            /\ UnseenVideos(channels_info[c], states_before[c]) # {}) =>
            stored[c] = Take(Ids(SelectSeq(channels_info[c],
                                  LAMBDA v : v \in UnseenVideos(channels_info[c], states_before[c])))
                             \o states_before[c], STATE_LIMIT)

(***************************************************************************)
(* C5: in the full-list poller, for a channel with persisted state (the    *)
(* first check of a channel finds no new item and is C2), when and only    *)
(* when the cycle finds a new item the persisted recentItemIds is replaced *)
(* by the ids of currentItems (first 20, source order); when no new item   *)
(* is found it is left as it was, also when currentItems differs from it.  *)
(***************************************************************************)
C5_FullRefreshOnlyOnNew ==
    \A c \in AllIds :
        (Reconciled(c) /\ HadState(c)) =>
            /\ c \in DOMAIN stored
            /\ stored[c] =
                 IF UnseenVideos(channels_info[c], states_before[c]) # {}
                 THEN Ids(Take(channels_info[c], STATE_LIMIT))
                 ELSE states_before[c]

\* a new item was found and an id seen before is dropped from the state
C5_Witness ==
    \E c \in AllIds :
        /\ CycleDone /\ Reconciled(c) /\ HadState(c)
        /\ UnseenVideos(channels_info[c], states_before[c]) # {}
        /\ stored[c] = Ids(channels_info[c])
        /\ Range(states_before[c]) \ Range(stored[c]) # {}

(***************************************************************************)
(* C6: in every reachable state each channel's persisted recentItemIds has *)
(* at most 20 entries, after the first check as after any later update.    *)
(***************************************************************************)
C6_StateBounded ==
    \A c \in DOMAIN stored : Len(stored[c]) <= STATE_LIMIT

\* the first check of a channel whose playlist is longer than every limit
C6_Witness ==
    \E c \in AllIds :
        /\ Reconciled(c) /\ ~HadState(c)
        /\ Len(playlist[c]) > STATE_LIMIT
        /\ Len(stored[c]) = RECENT_MAX_RESULTS

(***************************************************************************)
(* C7: idempotence. A cycle that fetches for a channel the same list as    *)
(* the cycle before it finds no new item, sends no notification for the    *)
(* channel and leaves its persisted state as it was.                       *)
(***************************************************************************)
C7_SecondCycleIdempotent ==
    \A c \in AllIds :
        repeat[c] # "no" =>
            /\ CallsFor(c) = <<>>
            /\ cur # c
            /\ (c \in DOMAIN stored) = (c \in DOMAIN states_before)
            /\ GetOr(stored, c, <<>>) = GetOr(states_before, c, <<>>)

C7_Witness ==
    \E c \in AllIds :
        /\ CycleDone /\ Reconciled(c) /\ repeat[c] # "no"
        /\ Len(channels_info[c]) > 1

(***************************************************************************)
(* C8: when the source returns no videos (or no info) for a channel in a   *)
(* cycle, the channel's persisted recentItemIds is left as it was and no   *)
(* notification is sent for it in that cycle.                              *)
(***************************************************************************)
C8_EmptyFetchChangesNothing ==
    \A c \in AllIds :
        (pc # "sleep" /\ (c \notin DOMAIN channels_info \/ channels_info[c] = <<>>)) =>
            /\ (c \in DOMAIN stored) = (c \in DOMAIN states_before)
            /\ GetOr(stored, c, <<>>) = GetOr(states_before, c, <<>>)
            /\ CallsFor(c) = <<>>
            /\ cur # c

\* the channel was in the batch with an empty list, and the cycle is over
C8_Witness ==
    \E c \in AllIds :
        /\ CycleDone
        /\ c \in DOMAIN channels_info /\ channels_info[c] = <<>>

(***************************************************************************)
(* C9: for each channel in each cycle the number of notifier calls is 1 if *)
(* the set of new items is non-empty and 0 otherwise; with k > 1 new items *)
(* the single call carries all k, and a call sends at most one email.      *)
(***************************************************************************)
C9_OneCallPerChannel ==
    CycleDone =>
        \A c \in AllIds :
            LET new == IF c \in DOMAIN channels_info /\ HadState(c)
                       THEN UnseenVideos(channels_info[c], states_before[c])
                       ELSE {}
            IN  /\ Len(CallsFor(c)) = IF new # {} THEN 1 ELSE 0
                /\ new # {} => Range(CallsFor(c)[1].videos) = new
                /\ Len(DeliveriesFor(c)) <= Len(CallsFor(c))
                /\ is_configured => Len(DeliveriesFor(c)) = Len(CallsFor(c))

\* one call carrying more than one new video
C9_Witness ==
    \E c \in AllIds :
        /\ CycleDone /\ Len(CallsFor(c)) = 1
        /\ Len(CallsFor(c)[1].videos) > 1
        /\ Len(DeliveriesFor(c)) = 1

(***************************************************************************)
(* C10: a failed notification does not roll the state back. After a call   *)
(* that returned False the channel's persisted recentItemIds is the        *)
(* updated list, and a following cycle that fetches the same list sends    *)
(* no notification for the channel.                                        *)
(***************************************************************************)
C10_FailedDispatchKeepsState ==
    /\ \A i \in 1..Len(calls) :
          ~calls[i].result =>
              /\ calls[i].channel \in DOMAIN stored
              /\ stored[calls[i].channel] = Ids(Take(channels_info[calls[i].channel], STATE_LIMIT))
              /\ Range(Ids(calls[i].videos)) \subseteq Range(stored[calls[i].channel])
    /\ \A c \in AllIds :
          repeat[c] = "seen_failed" => (CallsFor(c) = <<>> /\ cur # c)

\* the cycle after a failed dispatch has fetched the same list again
C10_Witness ==
    \E c \in AllIds :
        /\ CycleDone /\ Reconciled(c) /\ repeat[c] = "seen_failed"

(***************************************************************************)
(* C11: while the notifier is not configured, every call of                *)
(* send_video_notification and of send_multiple_videos_notification        *)
(* returns False and no resend.Emails.send is made; the state of the       *)
(* channel the call was made for has been updated all the same, and the    *)
(* cycle goes on to every channel that has videos.                         *)
(***************************************************************************)
C11_UnconfiguredNotifierSendsNothing ==
    ~is_configured =>
        /\ deliveries = <<>>
        /\ \A k \in 1..Len(calls) :
             /\ ~calls[k].result
             /\ pc # "raised" =>
                  /\ calls[k].channel \in DOMAIN stored
                  /\ stored[calls[k].channel] =
                       Ids(Take(processed[calls[k].channel].current_videos, STATE_LIMIT))
        /\ CycleDone =>
             \A c \in DOMAIN channels_info :
                 channels_info[c] # <<>> => c \in DOMAIN processed

\* a cycle of two channels with the notifier not configured: one call of
\* each kind was made, both returned False, and the cycle reached its end
C11_Witness ==
    /\ ~is_configured
    /\ CycleDone
    /\ Len(calls) = 2
    /\ {calls[1].kind, calls[2].kind} = {"single", "multiple"}
    /\ ~calls[1].result /\ ~calls[2].result
    /\ deliveries = <<>>
    /\ \A k \in 1..2 : stored[calls[k].channel] # states_before[calls[k].channel]

(***************************************************************************)
(* C12: a call of start_monitoring made while is_running is True changes   *)
(* neither is_running nor monitor_thread and creates no thread.            *)
(***************************************************************************)
C12_StartWhileRunningChangesNothing ==
    [][(ops' = ops + 1 /\ last_op'.op = "start" /\ is_running) =>
          /\ is_running' = is_running
          /\ monitor_thread' = monitor_thread
          /\ thread_pc' = thread_pc]_vars

\* start_monitoring was called while the service was running: there is
\* still the one thread, and it is the monitor thread
C12_Witness ==
    /\ last_op = [op |-> "start", was_running |-> TRUE]
    /\ is_running
    /\ monitor_thread # 0
    /\ Alive(monitor_thread)
    /\ \A t \in ThreadIds : t # monitor_thread => thread_pc[t] = "unborn"

(***************************************************************************)
(* C13: whatever start_monitoring and stop_monitoring calls were made, at  *)
(* most one thread is inside _monitor_loop.                                *)
(***************************************************************************)
C13_AtMostOneLoopThread ==
    Cardinality({t \in ThreadIds : Alive(t)}) <= 1

(***************************************************************************)
(* C14: while is_running is False no thread begins a cycle, and unless     *)
(* start_monitoring is called again every loop thread ends.                *)
(***************************************************************************)
C14_StoppedLoopEnds ==
    /\ [][~is_running =>
            \A t \in ThreadIds : thread_pc'[t] = "cycle" => thread_pc[t] = "cycle"]_vars
    /\ (~is_running ~> (is_running \/ \A t \in ThreadIds : ~Alive(t)))

\* the service was running with the key set, stop_monitoring was called, and
\* the monitor thread has ended
C14_Witness ==
    /\ youtube_api_key
    /\ last_op = [op |-> "stop", was_running |-> TRUE]
    /\ ~is_running
    /\ joining = 0
    /\ monitor_thread # 0
    /\ thread_pc[monitor_thread] = "dead"

(***************************************************************************)
(* C15: without the API key neither loop runs a cycle.  The monitor thread *)
(* leaves _monitor_loop at its first test and monitor_channels returns     *)
(* before its loop, and they stay ended; no state is loaded or saved, no   *)
(* identifier is converted, nothing is fetched, no notifier call and no    *)
(* delivery is made.                                                       *)
(***************************************************************************)
C15_NoKeyNoCycle ==
    [][~youtube_api_key =>
          /\ \A t \in ThreadIds :
               /\ thread_pc'[t] \in {"unborn", "test", "dead"}
               /\ thread_pc[t] = "dead" => thread_pc'[t] = "dead"
          /\ legacy_pc' \in {"sleep", "returned"}
          /\ legacy_pc = "returned" => legacy_pc' = "returned"
          /\ pc' = "sleep"
          /\ UNCHANGED <<stored, legacy_states, channels, username_cache, legacy_cache>>
          /\ channel_states' = EmptyDict /\ legacy_local' = EmptyDict
          /\ channels_info' = EmptyDict /\ resolve_log' = EmptyDict
          /\ legacy_seen' = EmptyDict
          /\ calls' = <<>> /\ deliveries' = <<>> /\ legacy_calls' = <<>>]_vars

\* the key is missing and both loops have ended, with the state of an
\* earlier run still in both files
C15_Witness ==
    /\ ~youtube_api_key
    /\ is_running
    /\ thread_pc[monitor_thread] = "dead"
    /\ legacy_pc = "returned"
    /\ stored # EmptyDict
    /\ legacy_states # EmptyDict
    /\ pc = "sleep" /\ channel_states = EmptyDict /\ calls = <<>>

(***************************************************************************)
(* C16: in a cycle in which the fetch of one channel failed (its           *)
(* recent_videos came back empty) and no save raised, a channel with new   *)
(* videos is handled from its own fetched list and its own prior state     *)
(* alone: its state is the fetched list, one call carries its new videos;  *)
(* the persisted state of the failed channel is what it was when the cycle *)
(* began; and no channel of the batch is dropped from the iteration.       *)
(***************************************************************************)
FetchFailed(a) == a \in DOMAIN channels_info /\ channels_info[a] = <<>>

C16_FailedFetchIsolated ==
    (pc \in {"process", "notify"}) =>
      \A a \in AllIds : FetchFailed(a) =>
        /\ a \notin DOMAIN processed
        /\ (a \in DOMAIN stored) = (a \in DOMAIN states_before)
        /\ a \in DOMAIN stored => stored[a] = states_before[a]
        /\ \A c \in DOMAIN channels_info :
             c \in Range(todo) \/ c \in DOMAIN processed \/ FetchFailed(c)
        /\ \A b \in AllIds \ {a} :
             (/\ b \in DOMAIN processed
              /\ processed[b].new_videos # <<>>
              /\ ~(pc = "notify" /\ cur = b)) =>
                /\ processed[b].new_videos =
                     NewVideos(channels_info[b], states_before[b])
                /\ stored[b] = Ids(Take(channels_info[b], STATE_LIMIT))
                /\ Len(CallsFor(b)) = 1
                /\ CallsFor(b)[1].videos = processed[b].new_videos

\* the cycle is over: the fetch of UCa failed and its state is untouched,
\* UCb had new videos, its state was replaced and its call was made
C16_Witness ==
    /\ CycleDone
    /\ FetchFailed("UCa")
    /\ "UCa" \in DOMAIN states_before
    /\ stored["UCa"] = states_before["UCa"]
    /\ "UCb" \in DOMAIN processed
    /\ processed["UCb"].new_videos # <<>>
    /\ stored["UCb"] # states_before["UCb"]
    /\ Len(CallsFor("UCb")) = 1

(***************************************************************************)
(* C17: an identifier whose conversion failed in this cycle is still       *)
(* mapped to the empty id, its channel is not in the batch of the cycle,   *)
(* the cache holds no entry that a later lookup would return for it and no *)
(* entry with an empty id at all, the channels of the batch are all        *)
(* iterated; and every cycle that begins asks get_channel_id for every     *)
(* identifier that is unresolved when it begins.                           *)
(***************************************************************************)
C17_FailedResolutionRetried ==
    /\ [](\A i \in DOMAIN username_cache : username_cache[i].id # "")
    /\ []((pc \in {"process", "notify"}) =>
            \A i \in DOMAIN resolve_log : resolve_log[i] = "failed" =>
              /\ channels[i] = ""
              /\ CanonicalId[i] \notin DOMAIN channels_info
              /\ CanonicalId[i] \notin DOMAIN processed
              /\ i \in DOMAIN username_cache => ~username_cache[i].fresh
              /\ \A c \in DOMAIN channels_info :
                   c \in Range(todo) \/ c \in DOMAIN processed \/ FetchFailed(c))
    /\ [][(pc = "sleep" /\ pc' = "process") =>
            \A i \in DOMAIN channels :
                channels[i] = "" => i \in DOMAIN resolve_log']_vars

\* a later cycle (UCb is fetched again): the conversion of "@a" has failed
\* again, as it did in the cycle before (an identifier that was converted
\* keeps its id), nothing was cached for it, and UCb has been iterated
C17_Witness ==
    /\ pc = "process"
    /\ "@a" \in DOMAIN resolve_log
    /\ resolve_log["@a"] = "failed"
    /\ channels["@a"] = ""
    /\ "@a" \notin DOMAIN username_cache
    /\ repeat["UCb"] # "no"
    /\ "UCb" \in DOMAIN processed

(***************************************************************************)
(* C18: after a save of the channel states has raised, the monitor thread  *)
(* is still inside _monitor_loop, so that a later cycle checks the channel *)
(* again.                                                                  *)
(***************************************************************************)
C18_SaveFailureKeepsLoopAlive ==
    pc = "raised" => \E t \in ThreadIds : Alive(t)

(***************************************************************************)
(* C19: Cache.get(k) returns the value of the last Cache.set of k whenever *)
(* less than the TTL has passed since that set (or the TTL is 0) and k was *)
(* not deleted in between, whatever was stored under k before.             *)
(***************************************************************************)
C19_SetThenGetReturnsValue ==
    (/\ cache_ret.op = "get"
     /\ cache_ret.key \in DOMAIN last_set
     /\ \/ ttl_seconds = 0
        \/ now - last_set[cache_ret.key].at < timedelta(ttl_seconds)) =>
        cache_ret.value = last_set[cache_ret.key].value

(***************************************************************************)
(* C20: with a positive TTL, Cache.get(k) of a stored entry returns None   *)
(* when the clock reads more than TTL seconds past the entry's timestamp   *)
(* and the entry's data otherwise; a get made 2 seconds or more after a    *)
(* set with a TTL of 1 returns None.                                       *)
(***************************************************************************)
C20_ExpiryWithPositiveTtl ==
    (cache_ret.op = "get" /\ ttl_seconds > 0) =>
        /\ (cache_file.state = "ok" /\ cache_ret.key \in DOMAIN cache_file.entries) =>
             LET entry == cache_file.entries[cache_ret.key]
                 age == now - strptime(entry.timestamp)
             IN  /\ age > timedelta(ttl_seconds) => cache_ret.value = "null"
                 /\ age <= timedelta(ttl_seconds) => cache_ret.value = entry.data
        /\ (/\ ttl_seconds = 1
            /\ cache_ret.key \in DOMAIN last_set
            /\ now - last_set[cache_ret.key].at >= timedelta(2)) =>
             cache_ret.value = "null"

\* a value was set with a TTL of 1, the get came 2 seconds later and
\* returned None although the entry is still in the file
C20_Witness ==
    /\ cache_ret.op = "get"
    /\ ttl_seconds = 1
    /\ cache_ret.key \in DOMAIN last_set
    /\ last_set[cache_ret.key].value = "x"
    /\ now - last_set[cache_ret.key].at = timedelta(2)
    /\ cache_file.state = "ok"
    /\ cache_ret.key \in DOMAIN cache_file.entries
    /\ cache_file.entries[cache_ret.key].data = "x"
    /\ cache_ret.value = "null"

(***************************************************************************)
(* C21: with the TTL of zero the channel-state store is constructed with,  *)
(* an entry never expires.  However long ago set(k, v) returned, the file  *)
(* still holds k with v, whatever cleanup calls were made since, and a     *)
(* get(k) returns v and does not raise.                                    *)
(***************************************************************************)
C21_ZeroTtlNeverExpires ==
    (ttl_seconds = STATE_CACHE_TTL /\ STATE_CACHE_TTL = 0) =>
        /\ \A k \in DOMAIN last_set :
             /\ cache_file.state = "ok"
             /\ k \in DOMAIN cache_file.entries
             /\ cache_file.entries[k].data = last_set[k].value
        /\ (cache_ret.op = "get" /\ cache_ret.key \in DOMAIN last_set) =>
             /\ ~cache_ret.raised
             /\ cache_ret.value = last_set[cache_ret.key].value

\* a get returns the value set when the clock began, at the last reading of
\* the clock
C21_Witness ==
    /\ ttl_seconds = 0
    /\ cache_ret.op = "get"
    /\ cache_ret.key \in DOMAIN last_set
    /\ last_set[cache_ret.key].at = 0
    /\ now = MaxTicks
    /\ cache_ret.value = "x"

(***************************************************************************)
(* C22: a get on a cache file that is missing or cannot be parsed returns  *)
(* absent (None) for every key and does not raise.                         *)
(***************************************************************************)
C22_UnreadableFileReadsAbsent ==
    (cache_ret.op = "get" /\ cache_file \in UnusableFiles) =>
        /\ ~cache_ret.raised
        /\ cache_ret.value = "null"

(***************************************************************************)
(* C23: set(k, v) reads, changes and writes the whole map.  After the call *)
(* the file holds the map it held before (the empty map if the file was    *)
(* missing or could not be parsed) with k bound to the time of the call    *)
(* and v; every other key has the value and the timestamp it had.          *)
(***************************************************************************)
C23_SetRewritesWholeMap ==
    [][cache_ret'.op = "set" =>
          LET prior == IF cache_file.state = "ok" THEN cache_file.entries
                       ELSE EmptyDict
              k == cache_ret'.key
          IN  /\ ~cache_ret'.raised
              /\ cache_file'.state = "ok"
              /\ DOMAIN cache_file'.entries = (DOMAIN prior) \cup {k}
              /\ cache_file'.entries[k] =
                   [timestamp |-> strftime(now), data |-> cache_ret'.value]
              /\ \A j \in (DOMAIN prior) \ {k} :
                   cache_file'.entries[j] = prior[j]]_vars

\* the entry is logically absent: more than the TTL has passed since the
\* time it records, and the TTL is not zero
LogicallyAbsent(entry) ==
    /\ ttl_seconds # 0
    /\ now - entry.timestamp * TicksPerSecond > ttl_seconds * TicksPerSecond

(***************************************************************************)
(* C24: cleanup on a file that can be read removes exactly the expired     *)
(* entries.  After the call no entry of the file is expired, no entry was  *)
(* added, and every entry that was not expired is still there with its     *)
(* value and its timestamp.                                                *)
(***************************************************************************)
C24_CleanupRemovesExactlyExpired ==
    [][(cache_ret'.op = "cleanup" /\ cache_file.state = "ok") =>
          /\ ~cache_ret'.raised
          /\ cache_file'.state = "ok"
          /\ DOMAIN cache_file'.entries \subseteq DOMAIN cache_file.entries
          /\ \A k \in DOMAIN cache_file'.entries :
               ~LogicallyAbsent(cache_file'.entries[k])
          /\ \A k \in DOMAIN cache_file.entries :
               ~LogicallyAbsent(cache_file.entries[k]) =>
                  /\ k \in DOMAIN cache_file'.entries
                  /\ cache_file'.entries[k] = cache_file.entries[k]]_vars

\* a cleanup has removed the expired entry of one key that was set and has
\* kept the entry of the other, which is exactly as old as the TTL
C24_Witness ==
    /\ cache_ret.op = "cleanup"
    /\ ttl_seconds > 0
    /\ cache_file.state = "ok"
    /\ DOMAIN last_set = CacheKeys
    /\ \E k \in CacheKeys :
         /\ k \notin DOMAIN cache_file.entries
         /\ \A j \in CacheKeys \ {k} :
              /\ j \in DOMAIN cache_file.entries
              /\ now - cache_file.entries[j].timestamp * TicksPerSecond
                   = ttl_seconds * TicksPerSecond

(***************************************************************************)
(* C25: cleanup is advisory.  Whatever sets, deletes, cleanups and passing *)
(* of time came before, a get returns what it would return had none of     *)
(* the cleanup calls been made: the result of the same get on the file     *)
(* that the same history without its cleanups leaves.                      *)
(***************************************************************************)
C25_CleanupIsAdvisory ==
    cache_ret.op = "get" =>
        /\ cache_ret.raised = LoadRaises(uncleaned_file)
        /\ cache_ret.value =
             CacheGetValue(uncleaned_file, cache_ret.key, ttl_seconds, now)

\* a get of a key that was set returns a value although an earlier cleanup
\* has removed the entry of the other key, which is still in the file of
\* the history without cleanups
C25_Witness ==
    /\ cache_ret.op = "get"
    /\ cache_ret.value = "x"
    /\ cache_file.state = "ok"
    /\ DOMAIN uncleaned_file.entries = CacheKeys
    /\ DOMAIN cache_file.entries = {cache_ret.key}
    /\ DOMAIN last_set = CacheKeys

(***************************************************************************)
(* C26: the calls of a Cache exclude one another.  At most one caller is   *)
(* inside the with block of get, set, delete or cleanup; a caller holds    *)
(* the lock exactly while it is inside one, so the lock is given back at   *)
(* the end of every call, also where the call returns early or raises, and *)
(* is not held from one call to the next.  So a set writes the map as it   *)
(* is when the set writes: what a concurrent set of another key wrote is   *)
(* kept, and both take effect.                                             *)
(***************************************************************************)
C26_CallsAreMutuallyExclusive ==
    /\ [](/\ Cardinality({c \in Callers : InCritical(c)}) <= 1
          /\ \A c \in Callers : lock = c <=> InCritical(c))
    /\ [][\A c \in Callers :
            (/\ cache_call[c].pc = "loaded"
             /\ cache_call[c].op = "set"
             /\ cache_call'[c].pc = "idle") =>
               /\ cache_file'.state = "ok"
               /\ cache_file'.entries[cache_call[c].key].data = cache_call[c].value
               /\ \A j \in DOMAIN CacheLoadForSet(cache_file) :
                    j # cache_call[c].key =>
                       /\ j \in DOMAIN cache_file'.entries
                       /\ cache_file'.entries[j] = cache_file.entries[j]]_vars

\* the poller is inside set(k1, ...) and has read the file, which holds
\* what an earlier set of the control surface wrote for k2; the control
\* surface has called set for k2 again and waits for the lock
C26_Witness ==
    /\ cache_call["poller"].pc = "loaded"
    /\ cache_call["poller"].op = "set"
    /\ cache_call["poller"].key = "k1"
    /\ cache_call["control"].pc = "acquire"
    /\ cache_call["control"].op = "set"
    /\ cache_call["control"].key = "k2"
    /\ lock = "poller"
    /\ cache_file.state = "ok"
    /\ DOMAIN cache_file.entries = {"k2"}

(***************************************************************************)
(* C27: a call that cannot take the lock because another holder never      *)
(* gives it back does not wait forever: no caller stays waiting for a lock *)
(* that stays held by the other process.                                   *)
(***************************************************************************)
C27_LockWaitIsBounded ==
    \A c \in Callers :
        []<>(~(cache_call[c].pc = "acquire" /\ lock = "other"))

(***************************************************************************)
(* C28: no channel state is carried in memory from one cycle to the next.  *)
(* Every cycle of either poller begins by taking the content the state     *)
(* file has at that moment, also when another actor has changed the file   *)
(* since the last cycle.  In the cycle after such a change a channel the   *)
(* file no longer holds is a first observation: its fetched ids are stored *)
(* and no notification is sent for it; a channel the file holds is         *)
(* compared with what the file holds.                                      *)
(***************************************************************************)
C28_EveryCycleReloadsTheStore ==
    /\ [][/\ (pc = "sleep" /\ pc' = "process") => channel_states' = stored
          /\ (legacy_pc = "sleep" /\ legacy_pc' = "loop") =>
                legacy_local' = legacy_states]_vars
    /\ []((CycleDone /\ "state" \in other_writes) =>
            \A c \in AllIds :
                Reconciled(c) =>
                    IF c \in DOMAIN states_before /\ states_before[c] # <<>>
                    THEN processed[c].last_video_ids = states_before[c]
                    ELSE /\ stored[c] = Ids(channels_info[c])
                         /\ CallsFor(c) = <<>>)
    /\ []((legacy_pc = "loop" /\ "legacy" \in other_writes) =>
            \A c \in DOMAIN legacy_seen :
                legacy_seen[c].first =>
                    /\ ChannelKey(c) \in DOMAIN legacy_states
                    /\ legacy_states[ChannelKey(c)] = legacy_seen[c].video.id
                    /\ \A i \in 1..Len(legacy_calls) : legacy_calls[i].channel # c)

\* an earlier cycle has notified videos of the channel, so its state was
\* stored; another actor has cleared it while the poller slept, and the
\* cycle that followed has stored the fetched ids and notified nothing; the
\* legacy poller has done the same after its state file was changed
C28_Witness ==
    \E c \in AllIds :
        /\ CycleDone
        /\ "state" \in other_writes
        /\ sent[c] # {}
        /\ Reconciled(c)
        /\ c \notin DOMAIN states_before
        /\ stored[c] = Ids(channels_info[c])
        /\ calls = <<>>
        /\ legacy_pc = "loop" /\ legacy_todo = <<>>
        /\ "legacy" \in other_writes
        /\ c \in DOMAIN legacy_seen /\ legacy_seen[c].first
        /\ legacy_calls = <<>>

(***************************************************************************)
(* C29: latest-only polling, no change.  When the state file records for   *)
(* the channel the id that the fetch returns again, no notification is     *)
(* sent for the channel and the state file is neither written nor changed. *)
(***************************************************************************)
C29_LatestOnlyNoChange ==
    legacy_pc = "loop" =>
        \A c \in DOMAIN legacy_seen :
            legacy_seen[c].last_video_id = legacy_seen[c].video.id =>
                /\ ~legacy_seen[c].saved
                /\ legacy_states[ChannelKey(c)] = legacy_seen[c].last_video_id
                /\ \A i \in 1..Len(legacy_calls) : legacy_calls[i].channel # c

\* the state file of this run recorded the id of the newest upload, and the
\* fetch has returned it again
C29_Witness ==
    \E c \in AllIds :
        /\ legacy_pc = "loop"
        /\ c \in DOMAIN legacy_seen
        /\ legacy_seen[c].last_video_id = legacy_seen[c].video.id
        /\ legacy_seen[c].video.id = Head(playlist[c]).id
        /\ legacy_calls = <<>>
        /\ "legacy" \notin other_writes

\* the persisted state of a channel, read as the list of the ids it records
RecordedIds(state) == <<state>>

(***************************************************************************)
(* C30: latest-only polling, new item.  When the state records an id and   *)
(* the fetch returns another, exactly one notification is sent, for the    *)
(* fetched video, and the new state is the fetched id put before the ids   *)
(* recorded so far, cut to 20, so that the old id is still known.          *)
(***************************************************************************)
C30_LatestOnlyPrependsNewId ==
    legacy_pc = "loop" =>
        \A c \in DOMAIN legacy_seen :
            LET seen == legacy_seen[c]
            IN  (seen.last_video_id # NoVideoId /\ seen.last_video_id # seen.video.id) =>
                    /\ Len(SelectSeq(legacy_calls, LAMBDA n : n.channel = c)) = 1
                    /\ \A i \in 1..Len(legacy_calls) :
                         legacy_calls[i].channel = c =>
                            legacy_calls[i].video = seen.video.id
                    /\ RecordedIds(legacy_states[ChannelKey(c)]) =
                         Take(<<seen.video.id>> \o RecordedIds(seen.last_video_id),
                              STATE_LIMIT)

(***************************************************************************)
(* C31: retry by polling. If the fetch of a channel fails in one cycle     *)
(* while the source holds a video that is not in the persisted state, and  *)
(* a later cycle fetches the channel with that video in the returned list  *)
(* (the video still not in the persisted state when that cycle begins),    *)
(* then the video is notified in that later cycle; and with a fair loop    *)
(* and fetches that do not fail for ever, the video is notified at some    *)
(* time.                                                                   *)
(***************************************************************************)
ChannelIds == {CanonicalId[i] : i \in Identifiers}

\* the batched fetch of this cycle gave videos for the channel
FetchOk(c) == c \in DOMAIN channels_info /\ channels_info[c] # <<>>

\* the fetch of this cycle failed for channel c while the source holds
\* video x, which is not in the persisted state
MissedBy(c, x) ==
    /\ c \in AllIds
    /\ pc = "process"
    /\ ~FetchOk(c)
    /\ x \in Range(Ids(get_recent_videos(playlist[c], RECENT_MAX_RESULTS)))
    /\ x \notin Range(GetOr(stored, c, <<>>))

\* the cycle that ends here fetched channel c with video x in the list,
\* and x was not in the persisted state when the cycle began
RetriedWith(c, x) ==
    /\ CycleDone
    /\ FetchOk(c)
    /\ x \in Range(Ids(channels_info[c]))
    /\ x \notin Range(GetOr(states_before, c, <<>>))

\* a notifier call of this cycle carries video x of channel c
NotifiedNow(c, x) == x \in CallIds(CallsFor(c))

C31_RetryByPolling ==
    \A c \in ChannelIds : \A x \in 1..NumItems :
        /\ [](MissedBy(c, x) => [](RetriedWith(c, x) => NotifiedNow(c, x)))
        /\ MissedBy(c, x) ~> NotifiedNow(c, x)

(***************************************************************************)
(* C32: stopping the scheduler, between two cycles or at any step inside a *)
(* cycle, does not corrupt the persisted state. Inside a cycle the         *)
(* persisted list of every channel is the list it had when the cycle       *)
(* began or the complete list the cycle computed for it from the fetch;    *)
(* a call of stop_monitoring, its join, and a start change no persisted    *)
(* list; and between two cycles nothing changes the persisted state.       *)
(***************************************************************************)
C32_StopKeepsStateWhole ==
    /\ [](pc \in {"process", "notify"} =>
            \A c \in AllIds :
                \/ /\ (c \in DOMAIN stored) = (c \in DOMAIN states_before)
                   /\ c \in DOMAIN stored => stored[c] = states_before[c]
                \/ /\ FetchOk(c)
                   /\ c \in DOMAIN stored
                   /\ stored[c] = Ids(Take(channels_info[c], STATE_LIMIT)))
    /\ [][(is_running' # is_running \/ joining' # joining \/ ops' # ops) =>
              stored' = stored]_vars
    /\ [][(pc = "sleep" /\ pc' = "sleep") => stored' = stored]_vars

\* stop_monitoring was called while the cycle was under way and its join
\* has timed out; the cycle has gone on, has saved the complete new list of
\* the channel and is about to notify
C32_Witness ==
    /\ ~is_running
    /\ last_op.op = "stop"
    /\ joining = 0
    /\ \E t \in ThreadIds : thread_pc[t] = "cycle"
    /\ pc = "notify"
    /\ cur \in DOMAIN states_before
    /\ stored[cur] # states_before[cur]
    /\ stored[cur] = Ids(channels_info[cur])
    /\ Len(stored[cur]) > 1

(***************************************************************************)
(* C33: an identifier that a cycle has resolved (get_channel_id gave a     *)
(* channel id, from the source or from its cache) is mapped to that id by  *)
(* the configuration; an identifier that is mapped to a channel id keeps   *)
(* that id in every later state; and no cycle that begins while it is      *)
(* mapped asks get_channel_id for it.                                      *)
(***************************************************************************)
C33_ResolvedOnce ==
    /\ [](\A i \in DOMAIN resolve_log :
            resolve_log[i] \in {"resolved", "cached"} =>
                /\ channels[i] # ""
                /\ channels[i] = IF resolve_log[i] = "cached"
                                 THEN username_cache[i].id ELSE CanonicalId[i])
    /\ [][\A i \in DOMAIN channels :
            channels[i] # "" => channels'[i] = channels[i]]_vars
    /\ [][(pc = "sleep" /\ pc' = "process") =>
            \A i \in DOMAIN channels :
                channels[i] # "" => i \notin DOMAIN resolve_log']_vars

\* the cycle that ends here has resolved "@a" at the source, the
\* configuration maps it to UCa, and the channel was fetched and iterated
C33_Witness ==
    /\ CycleDone
    /\ "@a" \in DOMAIN resolve_log
    /\ resolve_log["@a"] = "resolved"
    /\ channels["@a"] = "UCa"
    /\ "UCa" \in DOMAIN processed

(***************************************************************************)
(* C34: after update_username(old, new) has renamed a configured channel,  *)
(* new is mapped to the id old had, every identifier other than old and    *)
(* new has the record it had, and the configuration has as many channels   *)
(* as before, also when new was a configured identifier already.           *)
(***************************************************************************)
C34_RenameKeepsOthers ==
    (last_op.op = "update_username" /\ last_op.returned) =>
        /\ last_op.new \in DOMAIN channels
        /\ channels[last_op.new] = last_op.before[last_op.old]
        /\ \A k \in (DOMAIN last_op.before) \ {last_op.old, last_op.new} :
              k \in DOMAIN channels /\ channels[k] = last_op.before[k]
        /\ Cardinality(DOMAIN channels) = Cardinality(DOMAIN last_op.before)

(***************************************************************************)
(* C35: when the batched fetch of a cycle gave no channel at all (the      *)
(* request failed or had no items), nothing is iterated: the persisted     *)
(* state is what it was when the cycle began, for every channel, and no    *)
(* notifier call and no delivery was made; the next step of the loop is    *)
(* the return into the sleep, with the state and the running flag as they  *)
(* were; and from the sleep of a running loop the next cycle can begin.    *)
(***************************************************************************)
C35_EmptyBatchChangesNothing ==
    /\ []((pc = "process" /\ DOMAIN channels_info = {}) =>
            /\ todo = <<>>
            /\ processed = EmptyDict
            /\ stored = states_before
            /\ calls = <<>>
            /\ deliveries = <<>>)
    /\ [][(pc = "process" /\ DOMAIN channels_info = {}) =>
            /\ pc' = "sleep"
            /\ stored' = stored
            /\ calls' = <<>>
            /\ is_running' = is_running
            /\ \E t \in ThreadIds : thread_pc[t] = "cycle" /\ thread_pc'[t] = "sleep"]_vars
    /\ []((pc = "sleep" /\ \E t \in ThreadIds : LoopRuns(t)) =>
            ENABLED CheckChannelsFetch)

\* the batched fetch gave nothing in a cycle in which a channel with
\* persisted state has a video at the source that the state does not hold
C35_Witness ==
    /\ pc = "process"
    /\ DOMAIN channels_info = {}
    /\ \E c \in AllIds :
          /\ c \in DOMAIN stored
          /\ NewVideos(get_recent_videos(playlist[c], RECENT_MAX_RESULTS),
                       stored[c]) # <<>>

(***************************************************************************)
(* C36: persist before notify. When the full-list poller is about to call  *)
(* the notifier for a channel, and at the step that makes the call, the    *)
(* store holds the channel's updated list with the id of every video the   *)
(* call carries; when the save has raised, no call was made for the        *)
(* channel in this cycle and none is made afterwards. The latest-only      *)
(* poller calls send_notification only in a step that has saved the        *)
(* video's id for the channel; when its save has raised, no call was made  *)
(* for the channel and none is made afterwards.                            *)
(***************************************************************************)
C36_PersistBeforeNotify ==
    /\ [](pc = "notify" =>
            /\ cur \in DOMAIN stored
            /\ Range(Ids(processed[cur].new_videos)) \subseteq Range(stored[cur]))
    /\ [][Len(calls') > Len(calls) =>
            \A i \in (Len(calls) + 1)..Len(calls') :
                /\ calls'[i].channel \in DOMAIN stored
                /\ Range(Ids(calls'[i].videos)) \subseteq
                       Range(stored[calls'[i].channel])]_vars
    /\ [](pc = "raised" => CallsFor(Head(todo)) = <<>>)
    /\ [][pc = "raised" => (calls' = calls /\ deliveries' = deliveries)]_vars
    /\ [][Len(legacy_calls') > Len(legacy_calls) =>
            \A i \in (Len(legacy_calls) + 1)..Len(legacy_calls') :
                /\ ChannelKey(legacy_calls'[i].channel) \in DOMAIN legacy_states'
                /\ legacy_states'[ChannelKey(legacy_calls'[i].channel)] =
                       legacy_calls'[i].video]_vars
    /\ [](legacy_pc = "raised" =>
            \A i \in 1..Len(legacy_calls) :
                legacy_calls[i].channel # Head(legacy_todo))
    /\ [][legacy_pc = "raised" => legacy_calls' = legacy_calls]_vars

\* the full-list poller has saved the new list of a channel and has called
\* the notifier for its new videos; the save of the latest-only poller has
\* raised for a channel that had an older id in the state file, which is
\* left as it was, and no call was made
C36_Witness ==
    /\ CycleDone
    /\ \E c \in AllIds :
          /\ CallsFor(c) # <<>>
          /\ CallIds(CallsFor(c)) \subseteq Range(stored[c])
    /\ legacy_pc = "raised"
    /\ legacy_calls = <<>>
    /\ LET key == ChannelKey(Head(legacy_todo))
       IN  /\ key \in DOMAIN legacy_states
           /\ legacy_states[key] # legacy_local[key]

(***************************************************************************)
(* C37: a step of the cycle that handles channel A (it may save A's list)  *)
(* leaves the persisted list of every other channel B as it was in the     *)
(* store just before the step, also when another actor has changed or      *)
(* cleared B's entry, or the whole entry of the channel states, after the  *)
(* cycle read its state.                                                   *)
(***************************************************************************)
C37_WriteLeavesOtherChannels ==
    [][(pc = "process" /\ todo # <<>> /\ todo' = Tail(todo)) =>
          \A b \in AllIds \ {Head(todo)} :
              /\ (b \in DOMAIN stored') = (b \in DOMAIN stored)
              /\ b \in DOMAIN stored => stored'[b] = stored[b]]_vars

(***************************************************************************)
(* C38: the flag agrees with the loop. Whenever is_running is True, a      *)
(* thread running _monitor_loop is alive; and a call of start_monitoring   *)
(* made when no loop thread is alive (the loop has left, for example       *)
(* because the API key is missing) starts a new one.                       *)
(***************************************************************************)
LoopAlive == \E t \in ThreadIds : thread_pc[t] \notin {"unborn", "dead"}

C38_FlagAgreesWithLoop ==
    /\ [](is_running => LoopAlive)
    /\ [][(ops' = ops + 1 /\ last_op'.op = "start" /\ ~LoopAlive)
             => LoopAlive']_vars

(***************************************************************************)
(* C39: in the latest-only application at most one thread is inside the    *)
(* loop of monitor_channels (running its body or sleeping between two      *)
(* cycles) at any time, however many requests have been handled.           *)
(***************************************************************************)
C39_OneMonitorLoop ==
    Cardinality({t \in ThreadIds : thread_pc[t] \in {"cycle", "sleep"}}) <= 1

====
